---- MODULE Spec2Model ----
(***************************************************************************)
(* Objects repository server: the submission pipeline (Mongo.submit and    *)
(* its Normalizer addAndGetId), the resolver (Mongo.resolve) and the       *)
(* ownership / access layer (Account data, read gating, delete).           *)
(*                                                                         *)
(* Documents are partial maps from field names to values, so that the      *)
(* object spread {...a, ...b}, `delete obj[k]` and $set keep their         *)
(* meaning.  Every handler is one action.                                  *)
(***************************************************************************)
EXTENDS Integers, Sequences, FiniteSets, TLC

(***************************************************************************)
(* Bounds of the model.                                                    *)
(***************************************************************************)
\* ObjectIds the generator mints in one run
MaxIds == 3

\* submit requests handled in one run of the submission pipeline
MaxRequests == 3

\* requests that write, handled in one run of the access layer
MaxWrites == 4

\* requests that write, handled before the reads of one run
MaxSetup == 3

(***************************************************************************)
(* JavaScript values of the role-bearing fields: undefined/null, an array  *)
(* of role tags, or a single string.  A falsy array element (undefined,    *)
(* null, '') is the tag "".                                                *)
(***************************************************************************)
JNull == [t |-> "null", v |-> <<>>]

JArr(s) == [t |-> "arr", v |-> s]

JStr(s) == [t |-> "str", v |-> <<s>>]

\* JavaScript truthiness: every array is truthy, '' and undefined are not
Truthy(x) == x.t = "arr" \/ (x.t = "str" /\ x.v # <<"">>)

\* flatten() of one value: arrays are spliced, scalars (undefined too) kept
Flat(x) == IF x.t = "null" THEN <<"">> ELSE x.v

RECURSIVE FlatAll(_)
\* flatten() of an array of values
FlatAll(xs) == IF xs = <<>> THEN <<>> ELSE Flat(Head(xs)) \o FlatAll(Tail(xs))

RECURSIVE Dedup(_)
\* Array.from(new Set(arr)): first occurrences, in order
Dedup(s) ==
  IF s = <<>> THEN <<>>
  ELSE LET r == Dedup(SubSeq(s, 1, Len(s) - 1))
           x == s[Len(s)]
       IN IF \E i \in 1..Len(r) : r[i] = x THEN r ELSE Append(r, x)

\* arr.filter(obj => obj) on role tags
FilterTruthy(s) == SelectSeq(s, LAMBDA x : x # "")

(***************************************************************************)
(* Documents.                                                              *)
(***************************************************************************)
EmptyDoc == <<>>

Has(d, k) == k \in DOMAIN d

\* {...a, ...b}
Merge(a, b) == [k \in DOMAIN a \cup DOMAIN b |-> IF k \in DOMAIN b THEN b[k] ELSE a[k]]

\* delete d[k]
Del(d, k) == [x \in DOMAIN d \ {k} |-> d[x]]

\* d[k] = v
Put(d, k, v) == [x \in DOMAIN d \cup {k} |-> IF x = k THEN v ELSE d[x]]

\* d[k] of a role-bearing field, undefined when absent
GetJ(d, k) == IF Has(d, k) THEN d[k] ELSE JNull

\* d['_id']; 0 stands for an absent identifier or one that is no ObjectId
NoId == 0

IdOf(d) == IF Has(d, "_id") THEN d["_id"] ELSE NoId

\* ObjectId.isValid
ObjectIdIsValid(x) == x > 0

\* a bare reference { _id }
Ref(id) == [_id |-> id]

\* s.includes(x)
InSeq(x, s) == \E i \in 1..Len(s) : s[i] = x

Collections == {"person", "institution", "tag", "physicalobject", "digitalobject",
                "model", "compilation", "annotation"}

(***************************************************************************)
(* State.                                                                  *)
(***************************************************************************)
VARIABLES
  objects,    \* objects repository: collection -> (identifier -> document)
  accounts,   \* the ldap collection of the accounts repository, in insertion order;
              \* for registerUser, its users and passwords collections
  nextId,     \* the next ObjectId `new ObjectId()` returns
  response,   \* the response sent by the last handler
  last,       \* the last request: its handler, its inputs, what it created
  calls,      \* the Normalizer calls of the last submit, in order; of interleaved
              \* submits, the call of each request with the await it has reached
  removed,    \* <<session, collection, identifier>> of the deletes answered ok
  requests    \* the number of requests handled so far

vars == <<objects, accounts, nextId, response, last, calls, removed, requests>>

\* the identifiers stored in any collection of r
AllIds(r) == UNION {DOMAIN r[c] : c \in Collections}

(***************************************************************************)
(* The Normalizer.  A world w = [objs, next, log] is threaded through the  *)
(* calls of one request.                                                   *)
(***************************************************************************)
World(objs, next) == [objs |-> objs, next |-> next, log |-> <<>>]

\* RoleStep keeping the duplicates (without `Array.from(new Set(...))`)
RoleStepNoSet(field, prop, new_roles, digId, doRolesExist) ==
  IF ~Truthy(GetJ(field, prop)) THEN field
  ELSE LET val == IF Truthy(new_roles) THEN new_roles ELSE field[prop]
           merged == IF doRolesExist
                       THEN Flat(JArr(field["roles"][digId])) \o Flat(val)
                       ELSE Flat(val)
           roles == [field["roles"] EXCEPT ![digId] = merged]
       IN Put(Put(field, "roles", roles), prop, JArr(<<>>))

\* one iteration of the loop over ['institution_role', 'person_role']
RoleStep(field, prop, new_roles, digId, doRolesExist) ==
  IF ~Truthy(GetJ(field, prop)) THEN field
  ELSE LET val == IF Truthy(new_roles) THEN new_roles ELSE field[prop]
           merged == IF doRolesExist
                       THEN Flat(JArr(field["roles"][digId])) \o Flat(val)
                       ELSE Flat(val)
           roles == [field["roles"] EXCEPT ![digId] = Dedup(merged)]
       IN Put(Put(field, "roles", roles), prop, JArr(<<>>))

\* the role merge of a person or institution
RoleMerge(field, new_roles, digId) ==
  LET doRolesExist == Has(field, "roles")
      roles0 == IF doRolesExist THEN field["roles"] ELSE <<>>
      roles1 == [o \in DOMAIN roles0 \cup {digId} |->
                   IF o \in DOMAIN roles0 THEN roles0[o] ELSE <<>>]
      f0 == Put(field, "roles", roles1)
      f1 == RoleStep(f0, "institution_role", new_roles, digId, doRolesExist)
  IN RoleStep(f1, "person_role", new_roles, digId, doRolesExist)

\* "Make sure there are no null roles"
NullFilter(field, digId) ==
  IF Has(field, "roles") /\ digId \in DOMAIN field["roles"]
    THEN Put(field, "roles",
             [field["roles"] EXCEPT ![digId] = FilterTruthy(field["roles"][digId])])
    ELSE field

\* coll.updateOne({ _id }, { $set: field, $setOnInsert: { _id } }, { upsert: true })
Upsert(objs, coll, id, field) ==
  LET c == objs[coll]
      doc == IF id \in DOMAIN c THEN Merge(c[id], field) ELSE Put(field, "_id", id)
  IN [objs EXCEPT ![coll] = [k \in DOMAIN c \cup {id} |-> IF k = id THEN doc ELSE c[k]]]

\* TargetId minting an identifier whatever the payload carries
MintedId(field, next) == next

\* TargetId giving every payload without a valid identifier the same one
ContentId(field, next) == IF ObjectIdIsValid(IdOf(field)) THEN IdOf(field) ELSE NoId + 1

\* (isIdValid) ? new ObjectId(field['_id']) : new ObjectId()
TargetId(field, next) == IF ObjectIdIsValid(IdOf(field)) THEN IdOf(field) ELSE next

\* the document addAndGetId writes under id: the stored document merged with
\* the payload, the role merge, the null filter, without _id
AddAndGetIdField(w, field0, coll, new_roles, digId, id) ==
  LET found == ObjectIdIsValid(IdOf(field0)) /\ id \in DOMAIN w.objs[coll]
      f1 == IF found THEN Merge(w.objs[coll][id], field0) ELSE field0
      f2 == IF coll \in {"person", "institution"} THEN RoleMerge(f1, new_roles, digId) ELSE f1
  IN Del(NullFilter(f2, digId), "_id")

\* what addAndGetId returns, and the world it leaves, objs being the store after the upsert
AddAndGetIdDone(w, field0, coll, new_roles, digId, id, objs) ==
  [w |-> [objs |-> objs,
          next |-> IF ObjectIdIsValid(IdOf(field0)) THEN w.next ELSE w.next + 1,
          log |-> Append(w.log,
                         [coll |-> coll, payload |-> field0, owner |-> digId,
                          new_roles |-> new_roles,
                          keysBefore |-> DOMAIN w.objs[coll], allBefore |-> AllIds(w.objs),
                          docBefore |-> IF id \in DOMAIN w.objs[coll] THEN w.objs[coll][id]
                                        ELSE EmptyDoc,
                          keysAfter |-> DOMAIN objs[coll], docAfter |-> objs[coll][id],
                          ref |-> id])],
   ref |-> Ref(id)]

\* the upsert of addAndGetId under id
AddAndGetIdUpsert(w, field0, coll, new_roles, digId, id) ==
  AddAndGetIdDone(w, field0, coll, new_roles, digId, id,
                  Upsert(w.objs, coll, id,
                         AddAndGetIdField(w, field0, coll, new_roles, digId, id)))

\* addAndGetId after the nested institutions of a person have been handled
AddAndGetIdBase(w, field0, coll, new_roles, digId) ==
  AddAndGetIdUpsert(w, field0, coll, new_roles, digId, TargetId(field0, w.next))

\* person.person_institution_data[i] = await addAndGetId(...), r being what the call returned
SetNested(person, i, r) ==
  [w |-> r.w,
   person |-> Put(person, "person_institution_data",
                  [person["person_institution_data"] EXCEPT ![i] = r.ref])]

RECURSIVE AddNestedInstitutionFrom(_, _, _)
\* the loop of addNestedInstitution from index i on, n being [w, person]
AddNestedInstitutionFrom(n, i, digId) ==
  IF i > Len(n.person["person_institution"]) THEN n
  ELSE IF n.person["person_institution"][i]["value"] # "add_new_institution"
    THEN AddNestedInstitutionFrom(n, i + 1, digId)
    ELSE AddNestedInstitutionFrom(
           SetNested(n.person, i,
                     AddAndGetIdBase(n.w, n.person["person_institution_data"][i],
                                     "institution", JNull, digId)),
           i + 1, digId)

addNestedInstitution(w, person, digId) ==
  IF ~Has(person, "person_institution") THEN [w |-> w, person |-> person]
  ELSE AddNestedInstitutionFrom([w |-> w, person |-> person], 1, digId)

\* addAndGetId of a person, n being what addNestedInstitution returned
AddAndGetIdNested(n, coll, new_roles, digId) ==
  AddAndGetIdBase(n.w, n.person, coll, new_roles, digId)

addAndGetId(w, in_field, coll, new_roles, digId) ==
  IF coll = "person"
    THEN AddAndGetIdNested(addNestedInstitution(w, in_field, digId), coll, new_roles, digId)
    ELSE AddAndGetIdBase(w, in_field, coll, new_roles, digId)

(***************************************************************************)
(* The submission pipeline.                                                *)
(***************************************************************************)
\* person['value'] && person['value'].indexOf('add_to_new_rightsowner') !== -1
addToRightsOwnerFilter(person) ==
  Has(person, "value") /\ person["value"] = "add_to_new_rightsowner"

\* a filter that keeps every entry
KeepAll(obj) == TRUE

\* ObjectId.isValid(obj._id)
filterObjectsWithoutID(obj) == ObjectIdIsValid(IdOf(obj))

RECURSIVE ConcatFixLoop(_, _)
\* the loop of concatFix building `final` from the filtered entries
ConcatFixLoop(result, final) ==
  IF result = <<>> THEN final
  ELSE LET obj == Ref(IdOf(Head(result)))
           filtered == SelectSeq(final, LAMBDA o : o["_id"] = obj["_id"])
       IN ConcatFixLoop(Tail(result),
                        IF Len(filtered) = 0 THEN Append(final, obj) ELSE final)

\* concatFix(...arr) on the concatenation of its arguments
concatFix(arrs) == ConcatFixLoop(SelectSeq(arrs, filterObjectsWithoutID), <<>>)

\* the roles one `existing` array contributes in handleRightsOwnerBase
RolesToConcat(existArr, roleProperty, fixedRoles) ==
  LET filtered == SelectSeq(existArr, addToRightsOwnerFilter)
  IN IF Len(filtered) # 1 THEN <<>>
     ELSE LET r == GetJ(filtered[1], roleProperty)
          IN <<IF Truthy(r) /\ Len(r.v) > 0 THEN r ELSE fixedRoles>>

RECURSIVE ToConcat(_, _, _)
ToConcat(existArrs, roleProperty, fixedRoles) ==
  IF existArrs = <<>> THEN <<>>
  ELSE RolesToConcat(Head(existArrs), roleProperty, fixedRoles)
         \o ToConcat(Tail(existArrs), roleProperty, fixedRoles)

\* arr[i] = await addAndGetId(...), r being what the call returned
SetRef(arr, i, r) == [w |-> r.w, arr |-> [arr EXCEPT ![i] = r.ref]]

\* arr.push(await addAndGetId(...)), r being what the call returned
PushRef(arr, r) == [w |-> r.w, arr |-> Append(arr, r.ref)]

RECURSIVE HandleRightsOwnerBaseFrom(_, _, _, _, _, _, _)
\* the loop of handleRightsOwnerBase from index x on, st being [w, arr]
HandleRightsOwnerBaseFrom(st, x, existArrs, roleProperty, coll, fixedRoles, digId) ==
  IF x > Len(st.arr) THEN st
  ELSE LET toConcat == ToConcat(existArrs, roleProperty, fixedRoles)
           newRoles == JArr(Flat(GetJ(st.arr[x], roleProperty)) \o FlatAll(toConcat))
       IN HandleRightsOwnerBaseFrom(
            SetRef(st.arr, x, addAndGetId(st.w, st.arr[x], coll, newRoles, digId)),
            x + 1, existArrs, roleProperty, coll, fixedRoles, digId)

handleRightsOwnerBase(w, inArr, existArrs, roleProperty, coll, fixedRoles, digId) ==
  HandleRightsOwnerBaseFrom([w |-> w, arr |-> inArr], 1, existArrs, roleProperty, coll,
                            fixedRoles, digId)

\* arr[0], undefined (spread as {}) on an empty array
First(arr) == IF arr = <<>> THEN EmptyDoc ELSE arr[1]

\* arr[0] = v
SetFirst(arr, v) == IF arr = <<>> THEN <<v>> ELSE [arr EXCEPT ![1] = v]

personSelector == 1

instSelector == 2

\* personArr[0] = await addAndGetId(...), r being what the call returned
SetFirstPerson(st, r) ==
  [w |-> r.w, personArr |-> SetFirst(st.personArr, r.ref), instArr |-> st.instArr]

\* instArr[0] = await addAndGetId(...), r being what the call returned
SetFirstInst(st, r) ==
  [w |-> r.w, personArr |-> st.personArr, instArr |-> SetFirst(st.instArr, r.ref)]

RECURSIVE HandleRightsOwnerSelectorFrom(_, _, _, _)
\* the loop of handleRightsOwnerSelector over inArr, st being [w, personArr, instArr]
HandleRightsOwnerSelectorFrom(st, inArr, selector, digId) ==
  IF inArr = <<>> THEN st
  ELSE LET obj == Head(inArr)
           value == IF Has(obj, "value") THEN obj["value"] ELSE ""
           toPerson == value = "add_new_person"
                         \/ (value \notin {"add_new_person", "add_new_institution"}
                               /\ selector = personSelector)
           toInst == value = "add_new_institution"
                       \/ (value \notin {"add_new_person", "add_new_institution"}
                             /\ selector = instSelector)
           field == IF value = "add_new_person" THEN First(st.personArr)
                    ELSE IF value = "add_new_institution" THEN First(st.instArr)
                    ELSE obj
       IN IF toPerson
            THEN HandleRightsOwnerSelectorFrom(
                   SetFirstPerson(st, addAndGetId(st.w, field, "person", JNull, digId)),
                   Tail(inArr), selector, digId)
          ELSE IF toInst
            THEN HandleRightsOwnerSelectorFrom(
                   SetFirstInst(st, addAndGetId(st.w, field, "institution", JNull, digId)),
                   Tail(inArr), selector, digId)
          ELSE HandleRightsOwnerSelectorFrom(st, Tail(inArr), selector, digId)

handleRightsOwnerSelector(w, inArr, personArr, instArr, selector, digId) ==
  HandleRightsOwnerSelectorFrom([w |-> w, personArr |-> personArr, instArr |-> instArr],
                                inArr, selector, digId)

RECURSIVE HandleRightsOwnerAndExistingFrom(_, _, _, _, _, _, _)
\* the loop of handleRightsOwnerAndExisting over inArr, st being [w, arr] with arr the outArr
HandleRightsOwnerAndExistingFrom(st, inArr, coll, idIfSame, roleProperty, role, digId) ==
  IF inArr = <<>> THEN st
  ELSE LET obj == Head(inArr)
           roleVal == IF Truthy(role) THEN role ELSE GetJ(obj, roleProperty)
           ownId == ObjectIdIsValid(IdOf(obj))
           sameId == ObjectIdIsValid(idIfSame)
           id == IF ownId THEN IdOf(obj) ELSE IF sameId THEN idIfSame ELSE st.w.next
           w1 == IF ownId \/ sameId THEN st.w ELSE [st.w EXCEPT !.next = st.w.next + 1]
           newObj == Put(Put(EmptyDoc, roleProperty, roleVal), "_id", id)
       IN HandleRightsOwnerAndExistingFrom(
            PushRef(st.arr, addAndGetId(w1, newObj, coll, roleVal, digId)),
            Tail(inArr), coll, idIfSame, roleProperty, role, digId)

handleRightsOwnerAndExisting(w, inArr, outArr, coll, idIfSame, roleProperty, role, digId) ==
  HandleRightsOwnerAndExistingFrom([w |-> w, arr |-> outArr], inArr, coll, idIfSame,
                                   roleProperty, role, digId)

RECURSIVE HandleSimpleCasesFrom(_, _, _, _)
\* the loop of handleSimpleCases from index i on, st being [w, arr]
HandleSimpleCasesFrom(st, i, coll, digId) ==
  IF i > Len(st.arr) THEN st
  ELSE HandleSimpleCasesFrom(
         SetRef(st.arr, i, addAndGetId(st.w, st.arr[i], coll, JNull, digId)),
         i + 1, coll, digId)

handleSimpleCases(w, arr, coll, digId) ==
  HandleSimpleCasesFrom([w |-> w, arr |-> arr], 1, coll, digId)

\* what a statement `x = await handle...(...)` leaves in the record of a pass:
\* the world and the array f, r being what the handler returned
Into(p, f, r) == [p EXCEPT !.w = r.w, ![f] = r.arr]

\* the same for handleRightsOwnerSelector, which assigns two arrays
IntoOwners(p, s) == [p EXCEPT !.w = s.w, !.rp = s.personArr, !.ri = s.instArr]

\* One pass of the loop over phyObjs, statement by statement.  p holds the
\* world, the physical object, its identifier and the arrays of the pass:
\* rp and ri (phyobj_rightsowner_person, _institution), person and inst
\* (phyobj_person, phyobj_institution, which the `existing` entries join).
PhyStart(w0, phyObj0) ==
  LET isPhyObjIdValid == ObjectIdIsValid(IdOf(phyObj0))
      currentPhyObjId == IF isPhyObjIdValid THEN IdOf(phyObj0) ELSE w0.next
  IN [w |-> IF isPhyObjIdValid THEN w0 ELSE [w0 EXCEPT !.next = w0.next + 1],
      phyObj |-> Put(phyObj0, "_id", currentPhyObjId), id |-> currentPhyObjId,
      rp |-> <<>>, ri |-> <<>>, person |-> <<>>, inst |-> <<>>]

PhyRightsOwnerPerson(p) ==
  Into(p, "rp",
       handleRightsOwnerBase(p.w, p.phyObj["phyobj_rightsowner_person"],
                                 <<p.phyObj["phyobj_person_existing"]>>,
                                 "person_role", "person", JNull, p.id))

PhyRightsOwnerInstitution(p) ==
  Into(p, "ri",
       handleRightsOwnerBase(p.w, p.phyObj["phyobj_rightsowner_institution"],
                                 <<p.phyObj["phyobj_institution_existing"]>>,
                                 "institution_role", "institution", JNull, p.id))

PhyRightsOwner(p) ==
  IntoOwners(p,
             handleRightsOwnerSelector(p.w, p.phyObj["phyobj_rightsowner"], p.rp, p.ri,
                                     p.phyObj["phyobj_rightsownerSelector"], p.id))

\* PhyPersons with currentPhyObjId left unset: the key is that of the first
\* identifier of the request's sequence
PhyPersonsUnderFirstId(p) ==
  Into(p, "person",
       handleSimpleCases(p.w, p.phyObj["phyobj_person"], "person", NoId + 1))

PhyPersons(p) ==
  Into(p, "person",
       handleSimpleCases(p.w, p.phyObj["phyobj_person"], "person", p.id))

PhyInstitutions(p) ==
  Into(p, "inst",
       handleSimpleCases(p.w, p.phyObj["phyobj_institution"], "institution", p.id))

\* if (phyobj_rightsowner_person[0]) ... else if (phyobj_rightsowner_institution[0])
PhySameAsRightsOwner(p) ==
  IF p.rp # <<>>
    THEN Into(p, "person",
      handleRightsOwnerAndExisting(
                    p.w, p.phyObj["phyobj_person_existing"], p.person, "person",
                    IdOf(p.rp[1]), "person_role", JNull, p.id))
  ELSE IF p.ri # <<>>
    THEN Into(p, "inst",
      handleRightsOwnerAndExisting(
                    p.w, p.phyObj["phyobj_institution_existing"], p.inst, "institution",
                    IdOf(p.ri[1]), "institution_role", JNull, p.id))
  ELSE p

PhyExistingPersons(p) ==
  Into(p, "person",
       handleRightsOwnerAndExisting(p.w, p.phyObj["phyobj_person_existing"], p.person,
                                        "person", NoId, "person_role", JNull, p.id))

PhyExistingInstitutions(p) ==
  Into(p, "inst",
       handleRightsOwnerAndExisting(p.w, p.phyObj["phyobj_institution_existing"],
                                        p.inst, "institution", NoId, "institution_role",
                                        JNull, p.id))

\* finalPhy, normalized into the physical-object collection
PhyFinal(p) ==
  addAndGetId(p.w,
              Merge(p.phyObj,
                    [phyobj_rightsowner |->
                       concatFix(p.phyObj["phyobj_rightsowner"] \o p.ri \o p.rp),
                     phyobj_rightsowner_person |-> <<>>,
                     phyobj_rightsowner_institution |-> <<>>,
                     phyobj_person |-> <<>>,
                     phyobj_person_existing |->
                       concatFix(p.phyObj["phyobj_person_existing"] \o p.person),
                     phyobj_institution |-> <<>>,
                     phyobj_institution_existing |->
                       concatFix(p.phyObj["phyobj_institution_existing"] \o p.inst)]),
              "physicalobject", JNull, p.id)

\* one pass of the loop over phyObjs: the sub-graph is normalized under its own identifier
SubmitPhyObj(w0, phyObj0) ==
  PhyFinal(PhyExistingInstitutions(PhyExistingPersons(PhySameAsRightsOwner(
    PhyInstitutions(PhyPersons(PhyRightsOwner(PhyRightsOwnerInstitution(
      PhyRightsOwnerPerson(PhyStart(w0, phyObj0))))))))))

RECURSIVE SubmitPhyObjsFrom(_, _, _)
RECURSIVE SubmitPhyObjsNext(_, _, _)
\* for (let i = 0; i < phyObjs.length; i++)
SubmitPhyObjsFrom(w, phyObjs, i) ==
  IF i > Len(phyObjs) THEN [w |-> w, arr |-> phyObjs, thrown |-> FALSE]
  ELSE IF ~Has(phyObjs[i], "phyobj_rightsowner_person")
    \* inArr.length of undefined: a TypeError leaves the handler
    THEN [w |-> w, arr |-> phyObjs, thrown |-> TRUE]
  ELSE SubmitPhyObjsNext(SubmitPhyObj(w, phyObjs[i]), phyObjs, i)

\* phyObjs[i] = await addAndGetId(finalPhy, 'physicalobject'), and the next pass
SubmitPhyObjsNext(r, phyObjs, i) ==
  SubmitPhyObjsFrom(r.w, [phyObjs EXCEPT ![i] = r.ref], i + 1)

\* Mongo.submit, statement by statement.  d holds the world, resultObject, its
\* identifier and the arrays of the handler: rp and ri (digobj_rightsowner_person,
\* _institution), cp, dp, tg (contact_person, digobj_person, digobj_tags), ce and
\* de (what the `existing` entries of contact persons and persons become), ph (phyObjs).
DigStart(objs, next, body) ==
  LET isResObjIdValid == ObjectIdIsValid(IdOf(body))
      digId == IF isResObjIdValid THEN IdOf(body) ELSE next
  IN [w |-> World(objs, IF isResObjIdValid THEN next ELSE next + 1),
      resultObject |-> Put(body, "_id", digId), digId |-> digId,
      rp |-> <<>>, ri |-> <<>>, cp |-> <<>>, dp |-> <<>>, tg |-> <<>>, ce |-> <<>>,
      de |-> <<>>, ph |-> <<>>, thrown |-> FALSE]

DigRightsOwnerPerson(d) ==
  Into(d, "rp",
       handleRightsOwnerBase(d.w, d.resultObject["digobj_rightsowner_person"],
                                 <<d.resultObject["digobj_person_existing"],
                                   d.resultObject["contact_person_existing"]>>,
                                 "person_role", "person", JArr(<<"CONTACT_PERSON">>),
                                 d.digId))

DigRightsOwner(d) ==
  IntoOwners(d,
             handleRightsOwnerSelector(d.w, d.resultObject["digobj_rightsowner"], d.rp,
                                     d.resultObject["digobj_rightsowner_institution"],
                                     d.resultObject["digobj_rightsownerSelector"], d.digId))

DigRightsOwnerInstitution(d) ==
  Into(d, "ri",
       handleSimpleCases(d.w, d.ri, "institution", d.digId))

DigContactPersons(d) ==
  Into(d, "cp",
       handleSimpleCases(d.w, d.resultObject["contact_person"], "person", d.digId))

DigPersons(d) ==
  Into(d, "dp",
       handleSimpleCases(d.w, d.resultObject["digobj_person"], "person", d.digId))

DigTags(d) ==
  Into(d, "tg",
       handleSimpleCases(d.w, d.resultObject["digobj_tags"], "tag", d.digId))

\* _tempId is the identifier of digobj_rightsowner_person[0], '' when there is none
DigExistingContactPersons(d) ==
  Into(d, "ce",
       handleRightsOwnerAndExisting(d.w, d.resultObject["contact_person_existing"], d.cp,
                                    "person", IdOf(First(d.rp)), "person_role",
                                    JStr("CONTACT_PERSON"), d.digId))

DigExistingPersons(d) ==
  Into(d, "de",
       handleRightsOwnerAndExisting(d.w, d.resultObject["digobj_person_existing"], d.dp,
                                    "person", IdOf(First(d.rp)), "person_role", JNull,
                                    d.digId))

\* the loop over phyObjs, r being [w, arr, thrown]
IntoPhyObjs(d, r) == [d EXCEPT !.w = r.w, !.ph = r.arr, !.thrown = r.thrown]

DigPhyObjs(d) == IntoPhyObjs(d, SubmitPhyObjsFrom(d.w, d.resultObject["phyObjs"], 1))

\* the re-assignment and finalObject
DigFinal(d) ==
  [w |-> d.w,
   finalObject |->
     Merge(d.resultObject,
           [digobj_rightsowner_person |-> <<>>,
            digobj_rightsowner_institution |-> <<>>,
            contact_person |-> <<>>,
            contact_person_existing |->
              concatFix(d.resultObject["contact_person_existing"] \o d.ce),
            digobj_person_existing |->
              concatFix(d.resultObject["digobj_person_existing"] \o d.de),
            digobj_person |-> <<>>,
            digobj_tags |-> d.tg,
            phyObjs |-> d.ph,
            digobj_rightsowner |->
              concatFix(d.resultObject["digobj_rightsowner"] \o d.ri \o d.rp)]),
   thrown |-> d.thrown]

\* Mongo.submit up to the final upsert: [w, finalObject, thrown]
SubmitPipeline(objs, next, body) ==
  DigFinal(DigPhyObjs(DigExistingPersons(DigExistingContactPersons(DigTags(DigPersons(
    DigContactPersons(DigRightsOwnerInstitution(DigRightsOwner(DigRightsOwnerPerson(
      DigStart(objs, next, body)))))))))))

(***************************************************************************)
(* The resolver.  The type guards and the three expansion rules live in    *)
(* typeguards.ts and resolving-strategies.ts; they are modelled from the   *)
(* specification (4.3).                                                    *)
(***************************************************************************)
\* the result of findOne when no document matches
NullDoc == [null |-> TRUE]

isDigitalObject(d) == d # NullDoc /\ Has(d, "digobj_title")

isModel(d) == d # NullDoc /\ Has(d, "relatedDigitalObject")

isCompilation(d) == d # NullDoc /\ Has(d, "models")

isAnnotation(d) == d # NullDoc /\ Has(d, "body") /\ Has(d, "target")

\* coll.findOne({ _id })
FindOne(objs, coll, id) == IF id \in DOMAIN objs[coll] THEN objs[coll][id] ELSE NullDoc

\* DigitalObject rule: returned as it is stored
resolveDigitalObject(objs, d) == d

\* Model rule: relatedDigitalObject is expanded one level
resolveModel(objs, m) ==
  Put(m, "relatedDigitalObject",
      LET d == FindOne(objs, "digitalobject", IdOf(m["relatedDigitalObject"]))
      IN IF isDigitalObject(d) THEN resolveDigitalObject(objs, d) ELSE d)

\* Compilation rule: every entry of models is expanded by the Model rule, in order
resolveCompilation(objs, c) ==
  Put(c, "models",
      [i \in 1..Len(c["models"]) |->
         LET m == FindOne(objs, "model", IdOf(c["models"][i]))
         IN IF isModel(m) THEN resolveModel(objs, m) ELSE m])

\* `depth && depth === 0`: depth is a number or undefined (NoDepth)
NoDepth == -1

DepthIsZero(depth) == (depth # NoDepth /\ depth # 0) /\ depth = 0

\* Mongo.resolve of an identifier; NullDoc also stands for `undefined`
resolve(objs, id, collection_name, depth) ==
  IF ~ObjectIdIsValid(id) THEN NullDoc
  ELSE LET resolve_result == FindOne(objs, collection_name, id)
       IN IF DepthIsZero(depth) THEN resolve_result
          ELSE IF isDigitalObject(resolve_result)
            THEN resolveDigitalObject(objs, resolve_result)
          ELSE IF isModel(resolve_result) THEN resolveModel(objs, resolve_result)
          ELSE IF isCompilation(resolve_result) THEN resolveCompilation(objs, resolve_result)
          ELSE resolve_result

(***************************************************************************)
(* Accounts and ownership.                                                 *)
(***************************************************************************)
Digits == <<"0", "1", "2", "3", "4", "5", "6", "7", "8", "9">>

\* ObjectId.toString(): a hexadecimal string of fixed width; a request
\* parameter that is no ObjectId stays the string it is
toString(id) ==
  IF ObjectIdIsValid(id) THEN <<Digits[(id \div 10) + 1], Digits[(id % 10) + 1]>>
  ELSE <<"?">>

\* the values `===` compares: an ObjectId is an object, its toString() a string
ObjectIdValue(id) == [type |-> "object", val |-> toString(id)]

StringValue(str) == [type |-> "string", val |-> str]

\* x === y: values of different types are never equal, objects only by identity
\* (an ObjectId read from the store is a fresh object)
StrictEquals(x, y) == x.type = y.type /\ x.type # "object" /\ x.val = y.val

\* haystack.indexOf(needle) !== -1
IndexOfFound(haystack, needle) ==
  \E i \in 0..(Len(haystack) - Len(needle)) :
    SubSeq(haystack, i + 1, i + Len(needle)) = needle

\* request.params.collection is any name: HexName stands for the collection
\* whose name is the string of the identifier HexNameId
HexName == "hex"

HexNameId == MaxIds + 1

\* the characters of a key of the data map; a name that is not the string of
\* an identifier contains none, and is kept whole
KeyChars(k) == IF k = HexName THEN toString(HexNameId) ELSE <<k>>

\* the keys of a data map in a fixed order
CollectionOrder == <<"person", "institution", "tag", "physicalobject", "digitalobject",
                     "model", "compilation", "annotation", HexName>>

RECURSIVE StringifyList(_)
\* JSON.stringify of the elements of a list of ObjectIds
StringifyList(ids) ==
  IF ids = <<>> THEN <<>>
  ELSE <<"\"">> \o toString(Head(ids)) \o <<"\"">>
         \o (IF Len(ids) > 1 THEN <<",">> ELSE <<>>) \o StringifyList(Tail(ids))

RECURSIVE StringifyKeys(_, _)
StringifyKeys(data, keys) ==
  IF keys = <<>> THEN <<>>
  ELSE LET k == Head(keys)
           rest == StringifyKeys(data, Tail(keys))
       IN IF k \notin DOMAIN data THEN rest
          ELSE <<"\"">> \o KeyChars(k) \o <<"\"", ":", "[">> \o StringifyList(data[k])
                 \o <<"]">>
                 \o (IF rest = <<>> THEN <<>> ELSE <<",">>) \o rest

\* JSON.stringify(userData.data)
Stringify(data) == <<"{">> \o StringifyKeys(data, CollectionOrder) \o <<"}">>

\* ldap().findOne({ sessionID }): the index of the first match, 0 when none
SessionIndex(accts, sessionID) ==
  IF \E i \in 1..Len(accts) : accts[i].sessionID = sessionID
    THEN CHOOSE i \in 1..Len(accts) :
           /\ accts[i].sessionID = sessionID
           /\ \A j \in 1..(i - 1) : accts[j].sessionID # sessionID
    ELSE 0

\* ldap().findOne({ username })
UsernameIndex(accts, username) ==
  IF \E i \in 1..Len(accts) : accts[i].username = username
    THEN CHOOSE i \in 1..Len(accts) : accts[i].username = username
    ELSE 0

\* isUserOwnerOfObject answering yes to everyone
EveryoneOwns(accts, sessionID, identifier) == TRUE

\* JSON.stringify((userData) ? userData.data : '').indexOf(_id) !== -1
isUserOwnerOfObject(accts, sessionID, identifier) ==
  LET i == SessionIndex(accts, sessionID)
  IN IndexOfFound(IF i = 0 THEN <<"\"", "\"">> ELSE Stringify(accts[i].data),
                  toString(identifier))

\* DoesExist finding nothing
NeverExists(list, identifier) == FALSE

\* userData.data[collection].find(obj => obj.toString() === identifier.toString())
DoesExist(list, identifier) ==
  \E k \in 1..Len(list) : toString(list[k]) = toString(identifier)

\* Mongo.insertCurrentUserData: [accts, ok]
insertCurrentUserData(accts, sessionID, identifier, collection) ==
  LET i == SessionIndex(accts, sessionID)
  IN IF ~ObjectIdIsValid(identifier) \/ i = 0 THEN [accts |-> accts, ok |-> FALSE]
     ELSE LET data == accts[i].data
              list == IF collection \in DOMAIN data THEN data[collection] ELSE <<>>
          IN IF DoesExist(list, identifier) THEN [accts |-> accts, ok |-> TRUE]
             ELSE [accts |-> [accts EXCEPT ![i].data =
                                Put(data, collection, Append(list, identifier))],
                   ok |-> TRUE]

RECURSIVE ConcatValues(_, _)
\* Array.prototype.concat(...Object.values(find_result.data))
ConcatValues(data, keys) ==
  IF keys = <<>> THEN <<>>
  ELSE (IF Head(keys) \in DOMAIN data THEN data[Head(keys)] ELSE <<>>)
         \o ConcatValues(data, Tail(keys))

\* BelongsToUser without the membership test
AlwaysBelongs(data, identifier) == TRUE

\* UserRelatedObjects = concat(...Object.values(data)).map(id => id.toString());
\* UserRelatedObjects.find(obj => obj === identifier.toString())
BelongsToUser(data, identifier) ==
  LET UserRelatedObjects == ConcatValues(data, CollectionOrder)
  IN \E k \in 1..Len(UserRelatedObjects) :
       toString(UserRelatedObjects[k]) = toString(identifier)

\* find_result.data[RequestCollection].filter(id => id !== identifier.toString())
PruneData(list, identifier) ==
  SelectSeq(list, LAMBDA id :
                    ~StrictEquals(ObjectIdValue(id), StringValue(toString(identifier))))

(***************************************************************************)
(* Requests.                                                               *)
(***************************************************************************)
\* a string that is no ObjectId
BadId == NoId - 1

Roles == {"A", "B"}

\* the form of a digital object with every list empty
EmptyDigObj(id, selector) ==
  LET d == [digobj_title |-> "title", digobj_rightsownerSelector |-> selector,
            digobj_rightsowner |-> <<>>, digobj_rightsowner_person |-> <<>>,
            digobj_rightsowner_institution |-> <<>>, contact_person |-> <<>>,
            contact_person_existing |-> <<>>, digobj_person |-> <<>>,
            digobj_person_existing |-> <<>>, digobj_tags |-> <<>>, phyObjs |-> <<>>]
  IN IF id = NoId THEN d ELSE Put(d, "_id", id)

\* the form of a physical object with every list empty
EmptyPhyObj(selector) ==
  [phyobj_title |-> "phy", phyobj_rightsownerSelector |-> selector,
   phyobj_rightsowner |-> <<>>, phyobj_rightsowner_person |-> <<>>,
   phyobj_rightsowner_institution |-> <<>>, phyobj_person |-> <<>>,
   phyobj_person_existing |-> <<>>, phyobj_institution |-> <<>>,
   phyobj_institution_existing |-> <<>>]

\* d[slot].push(entry)
Fill(d, slot, entry) == Put(d, slot, Append(d[slot], entry))

NewPerson(role) == [name |-> "n1", person_role |-> JArr(<<role>>)]

NewInstitution(role) == [name |-> "i1", institution_role |-> JArr(<<role>>)]

PersonRef(id, role) == [_id |-> id, person_role |-> JArr(<<role>>)]

\* the forms a client submits, given the stored documents
SubmitBodies(objs) ==
  LET persons == DOMAIN objs["person"]
      insts == DOMAIN objs["institution"]
      digs == DOMAIN objs["digitalobject"]
      E(id) == EmptyDigObj(id, personSelector)
      \* forms of a new digital object
      fresh ==
        {Fill(E(NoId), "digobj_person_existing",
              [value |-> "add_to_new_rightsowner", person_role |-> JArr(<<"B">>)]),
         Fill(Fill(E(NoId), "digobj_rightsowner", [value |-> "add_new_person"]),
              "digobj_rightsowner_person", NewPerson("A")),
         Fill(Fill(E(NoId), "digobj_rightsowner", [value |-> "add_new_institution"]),
              "digobj_rightsowner_institution", NewInstitution("A")),
         Fill(E(NoId), "digobj_tags", [label |-> "t"]),
         Fill(E(NoId), "phyObjs",
              Fill(EmptyPhyObj(personSelector), "phyobj_person", NewPerson("B")))}
        \cup {Fill(EmptyDigObj(NoId, sel), "digobj_rightsowner", Ref(x)) :
                x \in persons \cup insts, sel \in {personSelector, instSelector}}
      \* forms of a new or of a stored digital object
      single(id) ==
        {Fill(E(id), "contact_person", NewPerson("A")),
         Fill(E(id), "digobj_person", [_id |-> BadId, name |-> "n2"])}
        \cup {Fill(E(id), "digobj_person", PersonRef(p, r)) : p \in persons, r \in Roles}
        \cup {Fill(Fill(E(id), "digobj_person", PersonRef(p, "A")),
                    "digobj_person", [_id |-> BadId, name |-> "n2"]) : p \in persons}
        \cup {Fill(E(id), "digobj_person_existing", PersonRef(p, "B")) : p \in persons}
        \cup {Fill(E(id), "contact_person_existing", Ref(p)) : p \in persons}
  IN fresh \cup UNION {single(id) : id \in {NoId} \cup digs}

(***************************************************************************)
(* Requests and responses.                                                 *)
(***************************************************************************)
Sessions == {"s1", "s2"}

Usernames == {"u1", "u2"}

\* the record kept of a request: the handler and its inputs
Request(op, sid) ==
  [op |-> op, sid |-> sid, coll |-> "", id |-> NoId, username |-> "", password |-> "",
   depth |-> NoDepth, created |-> {}]

\* response.send({ status, message, ...body }); status "none": nothing was sent
Response(status, message, body) == [status |-> status, message |-> message, body |-> body]

\* the entities (collection, identifier) present in b and not in a
Created(a, b) ==
  {ce \in Collections \X AllIds(b) :
     ce[2] \in DOMAIN b[ce[1]] /\ ce[2] \notin DOMAIN a[ce[1]]}

(***************************************************************************)
(* Mongo.submit                                                            *)
(***************************************************************************)
\* collection.updateOne({ _id }, { $set: finalObject }, { upsert: true }),
\* Mongo.resolve and the response, r being the result of the pipeline
SubmitStored(body, r) ==
  LET id == r.finalObject["_id"]
      stored == IF r.thrown THEN r.w.objs
                ELSE Upsert(r.w.objs, "digitalobject", id, r.finalObject)
  IN [objs |-> stored, next |-> r.w.next, log |-> r.w.log, id |-> id,
      \* an exception leaves the async handler without any response being sent
      resp |-> IF r.thrown THEN Response("none", "", body)
               ELSE Response("ok", "", resolve(stored, id, "digitalobject", NoDepth))]

SubmitResult(objs, next, body) == SubmitStored(body, SubmitPipeline(objs, next, body))

\* what a submit of session sid with result r leaves
SubmitEffect(sid, r) ==
  /\ r.next <= MaxIds + 1
  /\ objects' = r.objs
  /\ nextId' = r.next
  /\ calls' = r.log
  /\ response' = r.resp
  /\ last' = [Request("submit", sid) EXCEPT !.id = r.id,
                                            !.created = Created(objects, r.objs)]
  /\ UNCHANGED <<accounts, removed>>

SubmitWith(sid, body) ==
  /\ requests < MaxRequests
  /\ requests' = requests + 1
  /\ SubmitEffect(sid, SubmitResult(objects, nextId, body))

\* a client submits a form
Submit == \E body \in SubmitBodies(objects) : SubmitWith("s1", body)

\* a client submits the canonical digital object the previous submit returned
Resubmit ==
  /\ last.op = "submit"
  /\ response.status = "ok"
  /\ SubmitWith("s1", response.body)

(***************************************************************************)
(* Mongo.addObjectToCollection                                             *)
(***************************************************************************)
\* resultObject.models.filter(model => model)
TruthyModels(models) == SelectSeq(models, LAMBDA m : m # NullDoc)

\* the models as the client sent them
ModelsAsSent(models, next) == [arr |-> models, next |-> next]

RECURSIVE CompilationModels(_, _)
\* .map(model => ({ _id: new ObjectId(model['_id']) })): a model without _id gets a fresh one
CompilationModels(models, next) ==
  IF models = <<>> THEN [arr |-> <<>>, next |-> next]
  ELSE LET m == Head(models)
           own == Has(m, "_id")
           r == CompilationModels(Tail(models), IF own THEN next ELSE next + 1)
       IN [arr |-> <<Ref(IF own THEN m["_id"] ELSE next)>> \o r.arr, next |-> r.next]

\* an ObjectId as an element of an annotationList
Oid(id) == [oid |-> id]

\* (annotation._id) ? annotation._id : annotation, of an element of an annotationList
AnnotationId(annotation) ==
  IF Has(annotation, "_id") THEN annotation["_id"]
  ELSE IF Has(annotation, "oid") THEN annotation["oid"]
  ELSE NoId

\* (annotation._id) ? new ObjectId(annotation._id) : annotation
BareAnnotation(annotation) ==
  IF Has(annotation, "_id") THEN Oid(annotation["_id"]) ELSE annotation

\* the checks of the annotation branch, "" when the annotation passes them
AnnotationError(accts, sid, resultObject) ==
  IF ~Has(resultObject["target"], "source") THEN "Invalid annotation"
  ELSE IF ~Has(resultObject["body"], "content")
            \/ ~Has(resultObject["body"]["content"], "relatedPerspective")
    THEN "Missing body.content.relatedPerspective"
  ELSE IF ~Has(resultObject["target"]["source"], "relatedModel")
            \/ ~Has(resultObject["target"]["source"], "relatedCompilation")
    THEN "Related model or compilation undefined"
  ELSE IF ~ObjectIdIsValid(resultObject["target"]["source"]["relatedModel"])
    THEN "Invalid related model id"
  ELSE IF ~ObjectIdIsValid(resultObject["target"]["source"]["relatedCompilation"])
            /\ ~isUserOwnerOfObject(accts, sid,
                                    resultObject["target"]["source"]["relatedModel"])
    THEN "Permission denied"
  ELSE ""

\* updateAnnotationList(id, add_to_coll) for the annotation annId: [objs, thrown]
updateAnnotationList(objs, id, add_to_coll, annId) ==
  LET obj == resolve(objs, id, add_to_coll, 0)
      annotationList == SelectSeq(IF Has(obj, "annotationList") THEN obj["annotationList"]
                                  ELSE <<>>,
                                  LAMBDA annotation : annotation # NullDoc)
      doesAnnotationExist ==
        \E k \in 1..Len(annotationList) : AnnotationId(annotationList[k]) = annId
      pushed == Append(annotationList, Oid(annId))
      mapped == [k \in 1..Len(pushed) |-> BareAnnotation(pushed[k])]
  IN \* obj.annotationList of undefined: a TypeError leaves the handler
     IF obj = NullDoc THEN [objs |-> objs, thrown |-> TRUE]
     ELSE IF doesAnnotationExist THEN [objs |-> objs, thrown |-> FALSE]
     \* new ObjectId(x) throws on a value that is no ObjectId
     ELSE IF \E k \in 1..Len(pushed) :
               Has(pushed[k], "_id") /\ ~ObjectIdIsValid(pushed[k]["_id"])
       THEN [objs |-> objs, thrown |-> TRUE]
     \* coll.updateOne({ _id }, { $set: { annotationList } })
     ELSE [objs |-> [objs EXCEPT ![add_to_coll][id] = Put(@, "annotationList", mapped)],
           thrown |-> FALSE]

\* the annotation branch after its checks: the list of the model, or of the
\* compilation when relatedCompilation is a valid identifier
AnnotationBranch(objs, resultObject) ==
  LET source == resultObject["target"]["source"]
  IN IF ~ObjectIdIsValid(source["relatedCompilation"])
       THEN updateAnnotationList(objs, source["relatedModel"], "model", resultObject["_id"])
       ELSE updateAnnotationList(objs, source["relatedCompilation"], "compilation",
                                 resultObject["_id"])

\* the upsert of resultObject, the update of the account and the response
AddObjectDone(objs, accts, next, sid, coll, resultObject, objs1) ==
  [objs |-> objs1, accts |-> insertCurrentUserData(accts, sid, resultObject["_id"], coll).accts,
   next |-> next,
   resp |-> Response("ok", "", resolve(objs1, resultObject["_id"], coll, NoDepth))]

\* the branches of the handler on the kind of resultObject, and the upsert
AddObjectKind(objs, accts, next, sid, coll, r0) ==
  LET same == [objs |-> objs, accts |-> accts, next |-> next]
      ui == SessionIndex(accts, sid)
  IN IF isCompilation(r0)
       THEN LET models == TruthyModels(r0["models"])
                cm == CompilationModels(models, next)
            IN \* new ObjectId(x) throws on a string that is no ObjectId
               IF \E k \in 1..Len(models) :
                    Has(models[k], "_id") /\ ~ObjectIdIsValid(models[k]["_id"])
                 THEN same @@ [resp |-> Response("none", "", EmptyDoc)]
               ELSE AddObjectDone(
                      objs, accts, cm.next, sid, coll,
                      Merge(r0, [annotationList |-> IF Has(r0, "annotationList")
                                                      THEN r0["annotationList"] ELSE <<>>,
                                 relatedOwner |-> [username |-> accts[ui].username],
                                 models |-> cm.arr]),
                      Upsert(objs, coll, r0["_id"],
                             Merge(r0, [annotationList |-> IF Has(r0, "annotationList")
                                                             THEN r0["annotationList"]
                                                             ELSE <<>>,
                                        relatedOwner |-> [username |-> accts[ui].username],
                                        models |-> cm.arr])))
     ELSE IF isModel(r0)
       THEN AddObjectDone(objs, accts, next, sid, coll, r0, Upsert(objs, coll, r0["_id"], r0))
     ELSE IF isAnnotation(r0)
       THEN IF AnnotationError(accts, sid, r0) # ""
              THEN same @@ [resp |-> Response("error", AnnotationError(accts, sid, r0),
                                              EmptyDoc)]
            ELSE IF AnnotationBranch(objs, r0).thrown
              THEN same @@ [resp |-> Response("none", "", EmptyDoc)]
            ELSE AddObjectDone(objs, accts, next, sid, coll, r0,
                               Upsert(AnnotationBranch(objs, r0).objs, coll, r0["_id"], r0))
     ELSE AddObjectDone(objs, accts, next, sid, coll, r0, Upsert(objs, coll, r0["_id"], r0))

addObjectToCollection(objs, accts, next, sid, coll, body) ==
  LET isValidObjectId == ObjectIdIsValid(IdOf(body))
      doesObjectExist == resolve(objs, IdOf(body), coll, 0) # NullDoc
      id == IF isValidObjectId THEN IdOf(body) ELSE next
      same == [objs |-> objs, accts |-> accts, next |-> next]
  IN IF SessionIndex(accts, sid) = 0
       THEN same @@ [resp |-> Response("error", "Cannot fetch current user from database",
                                       EmptyDoc)]
     ELSE IF isValidObjectId /\ doesObjectExist /\ ~isUserOwnerOfObject(accts, sid, id)
       THEN same @@ [resp |-> Response("error", "Permission denied", EmptyDoc)]
     ELSE AddObjectKind(objs, accts, IF isValidObjectId THEN next ELSE next + 1, sid, coll,
                        Put(body, "_id", id))

(***************************************************************************)
(* Mongo.removeObjectFromCollection                                        *)
(***************************************************************************)
\* collection.deleteOne({ _id: identifier })
DeleteOne(objs, coll, identifier) ==
  [objs EXCEPT ![coll] = [k \in DOMAIN objs[coll] \ {identifier} |-> objs[coll][k]]]

\* the handler, deleteOk and updateOk being whether result.ok === 1 holds for
\* the deleteOne and for the updateOne of the account
RemoveWithStore(objs, accts, sid, coll, identifier, username, deleteOk, updateOk) ==
  LET i == SessionIndex(accts, sid)
      objs1 == IF deleteOk THEN DeleteOne(objs, coll, identifier) ELSE objs
  IN IF i = 0 \/ accts[i].username = "" \/ username = "" \/ username # accts[i].username
       THEN [objs |-> objs, accts |-> accts,
             resp |-> Response("error",
                               "Input username does not match username with current sessionID",
                               EmptyDoc)]
     ELSE IF ~BelongsToUser(accts[i].data, identifier)
       THEN [objs |-> objs, accts |-> accts,
             resp |-> Response("error",
                               "Object with identifier does not belong to account with this sessionID",
                               EmptyDoc)]
     ELSE IF ~deleteOk
       THEN [objs |-> objs, accts |-> accts, resp |-> Response("error", "", EmptyDoc)]
     ELSE IF coll \notin DOMAIN accts[i].data
       \* find_result.data[RequestCollection] is undefined: the TypeError of
       \* .filter leaves the handler after the delete, and nothing is sent
       THEN [objs |-> objs1, accts |-> accts, resp |-> Response("none", "", EmptyDoc)]
     ELSE IF ~updateOk
       THEN [objs |-> objs1, accts |-> accts, resp |-> Response("error", "", EmptyDoc)]
     ELSE [objs |-> objs1,
           accts |-> [accts EXCEPT ![i].data[coll] = PruneData(accts[i].data[coll], identifier)],
           resp |-> Response("ok", "", EmptyDoc)]

\* the handler when the store performs both operations
removeObjectFromCollection(objs, accts, sid, coll, identifier, username) ==
  RemoveWithStore(objs, accts, sid, coll, identifier, username, TRUE, TRUE)

(***************************************************************************)
(* Mongo.getCurrentUserData and Mongo.getObjectFromCollection              *)
(***************************************************************************)
\* data[property].map(obj => Mongo.resolve(obj, property)).filter(obj => obj)
ResolveList(objs, list, property) ==
  SelectSeq([k \in 1..Len(list) |-> resolve(objs, list[k], property, NoDepth)],
            LAMBDA d : d # NullDoc)

getCurrentUserData(objs, accts, sid) ==
  LET i == SessionIndex(accts, sid)
  IN IF i = 0
       THEN Response("error", "User not found by sessionID. Try relogging", EmptyDoc)
     ELSE Response("ok", "",
                   [username |-> accts[i].username,
                    data |-> [property \in DOMAIN accts[i].data |->
                                ResolveList(objs, accts[i].data[property], property)]])

PasswordProtected == "Password protected compilation"

\* { status: 'ok', ...object }: a property of the object named like one of
\* the literal replaces it
SendOk(object) ==
  Response(IF Has(object, "status") THEN object["status"] ELSE "ok",
           IF Has(object, "message") THEN object["message"] ELSE "", object)

\* `No ${RequestCollection} found with given identifier`
NotFound(coll) == "No " \o coll \o " found with given identifier"

getObjectFromCollection(objs, accts, sid, coll, identifier, password) ==
  LET object == resolve(objs, identifier, coll, NoDepth)
      _pw == IF Has(object, "password") THEN object["password"] ELSE ""
      isPasswordProtected == _pw # ""
      isUserOwner == isUserOwnerOfObject(accts, sid, identifier)
      isPasswordCorrect == _pw # "" /\ _pw = password
  IN IF object = NullDoc
       THEN Response("error", NotFound(coll), EmptyDoc)
     ELSE IF isCompilation(object)
       THEN IF ~isPasswordProtected \/ isUserOwner \/ isPasswordCorrect
              THEN SendOk(object)
              ELSE Response("ok", PasswordProtected, EmptyDoc)
     ELSE SendOk(object)

(***************************************************************************)
(* Mongo.submitService                                                     *)
(***************************************************************************)
submitService(objs, accts, next, sid, service) ==
  LET EuropeanaObject == EmptyDigObj(next, personSelector)
      modelObject == [_id |-> next + 1, annotationList |-> <<>>,
                      relatedDigitalObject |-> Ref(next), name |-> "title",
                      finished |-> TRUE, online |-> TRUE]
      objs1 == [objs EXCEPT !["digitalobject"] = (next :> EuropeanaObject) @@ @,
                            !["model"] = ((next + 1) :> modelObject) @@ @]
      ins == insertCurrentUserData(accts, sid, next + 1, "model")
  IN IF service = "europeana"
       THEN [objs |-> objs1, accts |-> ins.accts, next |-> next + 2,
             resp |-> Response("ok", "", modelObject)]
       ELSE [objs |-> objs, accts |-> accts, next |-> next,
             resp |-> Response("error", "Service not configured", EmptyDoc)]

(***************************************************************************)
(* Sessions: Mongo.addToAccounts and Mongo.invalidateSession               *)
(***************************************************************************)
addToAccounts(accts, username, sessionID) ==
  LET i == UsernameIndex(accts, username)
  IN IF i = 0
       THEN Append(accts, [username |-> username, sessionID |-> sessionID, data |-> <<>>])
       ELSE [accts EXCEPT ![i].sessionID = sessionID]

invalidateSession(accts, sessionID) ==
  [i \in 1..Len(accts) |->
     IF accts[i].sessionID = sessionID THEN [accts[i] EXCEPT !.sessionID = ""] ELSE accts[i]]

(***************************************************************************)
(* Actions of the access layer: one per handler.                           *)
(***************************************************************************)
\* an identifier a client chooses itself: a valid ObjectId the server never minted
ClientIds == {MaxIds + 1}

\* the identifiers a client names for a collection: those stored there, and its own
IdsFor(coll) == DOMAIN objects[coll] \cup ClientIds

\* with or without an identifier of the client's choice
WithIds(coll, doc) == {doc} \cup {Put(doc, "_id", x) : x \in IdsFor(coll)}

\* the documents a client adds, with their collection
AddBodies ==
  LET models == UNION {WithIds("model", [name |-> "m", relatedDigitalObject |-> Ref(d)]) :
                         d \in IdsFor("digitalobject")}
      compilations ==
        UNION {WithIds("compilation",
                       [name |-> "c", models |-> <<Ref(m)>>, password |-> pw]) :
                 m \in IdsFor("model"), pw \in {"", "x"}}
      digobjs == WithIds("digitalobject", EmptyDigObj(NoId, personSelector))
  IN ({"model"} \X models) \cup ({"compilation"} \X compilations)
       \cup ({"digitalobject"} \X digobjs)

Write(objs, accts, next) ==
  /\ requests < MaxWrites
  /\ next <= MaxIds + 1
  /\ requests' = requests + 1
  /\ objects' = objs
  /\ accounts' = accts
  /\ nextId' = next

Read == UNCHANGED <<objects, accounts, nextId, removed, requests>>

LoginOf(pairs) ==
  \E us \in pairs :
    /\ Write(objects, addToAccounts(accounts, us[1], us[2]), nextId)
    /\ response' = Response("ok", "", EmptyDoc)
    /\ last' = [Request("login", us[2]) EXCEPT !.username = us[1]]
    /\ calls' = <<>>
    /\ UNCHANGED removed

\* any user logs in, in any session
Login == LoginOf(Usernames \X Sessions)

\* each user logs in, in a session of their own
LoginOwn == LoginOf({<<"u1", "s1">>, <<"u2", "s2">>})

Logout ==
  \E sid \in Sessions :
    /\ Write(objects, invalidateSession(accounts, sid), nextId)
    /\ response' = Response("ok", "Logged out", EmptyDoc)
    /\ last' = Request("logout", sid)
    /\ calls' = <<>>
    /\ UNCHANGED removed

AddObjectOf(bodies) ==
  \E sid \in Sessions, cb \in bodies :
    LET r == addObjectToCollection(objects, accounts, nextId, sid, cb[1], cb[2])
        id == IF ObjectIdIsValid(IdOf(cb[2])) THEN IdOf(cb[2]) ELSE nextId
    IN /\ Write(r.objs, r.accts, r.next)
       /\ response' = r.resp
       /\ last' = [Request("addObject", sid) EXCEPT !.coll = cb[1], !.id = id,
                                                   !.created = Created(objects, r.objs)]
       /\ calls' = <<>>
       \* the session owns the entity again
       /\ removed' = IF r.resp.status = "ok" THEN removed \ {<<sid, cb[1], id>>}
                     ELSE removed

AddObject == AddObjectOf(AddBodies)

\* the same, of documents without a password
AddOpenObject ==
  AddObjectOf({cb \in AddBodies : Has(cb[2], "password") => cb[2]["password"] = ""})

RemoveObject ==
  \E sid \in Sessions, coll \in {"model", "compilation", "digitalobject"},
     username \in Usernames :
   \E identifier \in IdsFor(coll) \cup {BadId} :
    LET r == removeObjectFromCollection(objects, accounts, sid, coll, identifier, username)
    IN /\ Write(r.objs, r.accts, nextId)
       /\ response' = r.resp
       /\ last' = [Request("removeObject", sid) EXCEPT !.coll = coll, !.id = identifier,
                                                      !.username = username]
       /\ calls' = <<>>
       \* the deletes answered ok of an entity that was stored and that the
       \* Account of the session listed under its collection
       /\ removed' = IF /\ r.resp.status = "ok"
                        /\ identifier \in DOMAIN objects[coll]
                        /\ InSeq(identifier, accounts[SessionIndex(accounts, sid)].data[coll])
                       THEN removed \cup {<<sid, coll, identifier>>}
                       ELSE removed

SubmitServiceReq ==
  \E sid \in Sessions, service \in {"europeana", "unknown"} :
    LET r == submitService(objects, accounts, nextId, sid, service)
    IN /\ Write(r.objs, r.accts, r.next)
       /\ response' = r.resp
       /\ last' = [Request("submitService", sid) EXCEPT !.id = nextId + 1,
                                                       !.created = Created(objects, r.objs)]
       /\ calls' = <<>>
       /\ UNCHANGED removed

\* submit, by a session of the access layer
SubmitReq ==
  \E sid \in Sessions, id \in {NoId} \cup IdsFor("digitalobject") :
    /\ requests < MaxWrites
    /\ requests' = requests + 1
    /\ SubmitEffect(sid, SubmitResult(objects, nextId, EmptyDigObj(id, personSelector)))

GetCurrentUserData ==
  \E sid \in Sessions :
    /\ response' = getCurrentUserData(objects, accounts, sid)
    /\ last' = Request("getCurrentUserData", sid)
    /\ calls' = <<>>
    /\ Read

GetObject ==
  \E sid \in Sessions, coll \in {"model", "compilation"},
     password \in {"", "x", "y"} :
   \E identifier \in IdsFor(coll) :
    /\ response' = getObjectFromCollection(objects, accounts, sid, coll, identifier, password)
    /\ last' = [Request("getObject", sid) EXCEPT !.coll = coll, !.id = identifier,
                                                !.password = password]
    /\ calls' = <<>>
    /\ Read

\* Mongo.resolve, called with and without a depth
Resolve ==
  \E coll \in {"model", "compilation"}, depth \in {NoDepth, 0} :
   \E identifier \in IdsFor(coll) \cup {BadId} :
    /\ response' = Response("none", "", resolve(objects, identifier, coll, depth))
    /\ last' = [Request("resolve", "") EXCEPT !.coll = coll, !.id = identifier,
                                             !.depth = depth]
    /\ calls' = <<>>
    /\ Read

(***************************************************************************)
(* Specifications.                                                         *)
(***************************************************************************)
Init ==
  /\ objects = [c \in Collections |-> <<>>]
  /\ accounts = <<>>
  /\ nextId = 1
  /\ response = Response("none", "", EmptyDoc)
  /\ last = Request("none", "")
  /\ calls = <<>>
  /\ removed = {}
  /\ requests = 0

\* the submission pipeline
NextSubmit == Submit \/ Resubmit

SpecSubmit == Init /\ [][NextSubmit]_vars

\* reading: the resolver and the read gate
NextRead ==
  \/ requests < MaxSetup /\ (Login \/ Logout \/ AddObject)
  \/ GetObject
  \/ Resolve

SpecRead == Init /\ [][NextRead]_vars

\* ownership: Account data, delete, "what do I own"
NextOwn ==
  LoginOwn \/ AddOpenObject \/ RemoveObject \/ SubmitServiceReq \/ SubmitReq
    \/ GetCurrentUserData

SpecOwn == Init /\ [][NextOwn]_vars

(***************************************************************************)
(* Properties of the Normalizer and of submit (SpecSubmit).                *)
(***************************************************************************)
\* the fields of a payload the Normalizer rewrites itself
NormalizerFields == {"_id", "roles", "person_role", "institution_role"}

\* C1: every addAndGetId call of a submit, whatever its payload and target
\* collection: a payload whose _id is a valid identifier stored in the target
\* collection updates that entity (the payload's fields win, the others stay),
\* returns a reference to exactly that identifier and leaves the collection with
\* the same entities; a payload with no _id or an invalid one creates exactly
\* one entity, under an identifier no stored entity of any collection had.
C1_ReferenceOrCreate ==
  \A k \in 1..Len(calls) :
    LET c == calls[k]
        given == IdOf(c.payload)
    IN /\ (given > 0 /\ given \in c.keysBefore) =>
            /\ c.ref = given
            /\ c.keysAfter = c.keysBefore
            /\ \A f \in DOMAIN c.payload \ NormalizerFields : c.docAfter[f] = c.payload[f]
            /\ \A f \in DOMAIN c.docBefore \ (DOMAIN c.payload \cup NormalizerFields) :
                 c.docAfter[f] = c.docBefore[f]
       /\ (given <= 0) =>
            /\ c.ref \notin c.allBefore
            /\ c.ref > 0
            /\ c.keysAfter = c.keysBefore \cup {c.ref}
            /\ Cardinality(c.keysAfter) = Cardinality(c.keysBefore) + 1
            /\ \A f \in DOMAIN c.payload \ NormalizerFields : c.docAfter[f] = c.payload[f]

\* C1 witness: one submit normalized a reference to a stored person and a
\* payload with an invalid identifier
C1_Witness ==
  /\ \E k \in 1..Len(calls) :
       /\ IdOf(calls[k].payload) > 0
       /\ IdOf(calls[k].payload) \in calls[k].keysBefore
       /\ calls[k].docAfter # calls[k].docBefore
  /\ \E k \in 1..Len(calls) :
       /\ IdOf(calls[k].payload) = BadId
       /\ calls[k].ref \notin calls[k].keysBefore

\* the call normalizes a reference to a stored person or institution which
\* carries the single role r and no role override
IsRoleReference(c, r) ==
  /\ c.coll \in {"person", "institution"}
  /\ IdOf(c.payload) \in c.keysBefore
  /\ Has(c.docBefore, "roles")
  /\ c.new_roles = JNull
  /\ \/ c.coll = "person" /\ GetJ(c.payload, "person_role") = JArr(<<r>>)
     \/ c.coll = "institution" /\ GetJ(c.payload, "institution_role") = JArr(<<r>>)

RolesOf(roles, o) == IF o \in DOMAIN roles THEN roles[o] ELSE <<>>

\* C2: normalizing a reference to a stored person with role r under owner O
\* appends r to roles[O] unless it is there already, never stores a role twice
\* under O, and leaves the roles under every other owner as they were: role A
\* under O1, then B under O2, gives {O1: [A], O2: [B]}, and A under O1 again
\* changes nothing.
C2_RoleAccumulation ==
  \A k \in 1..Len(calls) : \A r \in Roles :
    LET c == calls[k]
        before == RolesOf(c.docBefore["roles"], c.owner)
    IN IsRoleReference(c, r) =>
         /\ c.docAfter["roles"][c.owner] =
              IF InSeq(r, before) THEN before ELSE Append(before, r)
         /\ \A o \in DOMAIN c.docBefore["roles"] \ {c.owner} :
              c.docAfter["roles"][o] = c.docBefore["roles"][o]
         /\ DOMAIN c.docAfter["roles"] = DOMAIN c.docBefore["roles"] \cup {c.owner}

\* C2 witness: a person with roles {O1: [A], O2: [B]} is normalized again with
\* role A under O1, and its roles stay {O1: [A], O2: [B]}
C2_Witness ==
  \E k \in 1..Len(calls) :
    LET c == calls[k]
    IN /\ IsRoleReference(c, "A")
       /\ \E o2 \in DOMAIN c.docBefore["roles"] \ {c.owner} :
            c.docBefore["roles"] = (c.owner :> <<"A">>) @@ (o2 :> <<"B">>)
       /\ c.docAfter["roles"] = c.docBefore["roles"]

\* C10: submitting the canonical digital object a successful submit returned
\* succeeds and leaves every stored entity and every role map as it was,
\* creating no entity.
C10_IdempotentResubmission ==
  [][Resubmit => (response'.status = "ok" /\ objects' = objects)]_vars

(***************************************************************************)
(* Properties of the resolver and of the read gate (SpecRead).             *)
(***************************************************************************)
\* the expansion rule matching the shape of a stored document (4.3)
Expanded(d) ==
  IF isDigitalObject(d) THEN d
  ELSE IF isModel(d) THEN resolveModel(objects, d)
  ELSE IF isCompilation(d) THEN resolveCompilation(objects, d)
  ELSE d

\* C3: resolve with depth 0 returns the stored document as it is stored, no
\* expansion rule applied; resolve without depth returns it expanded by the
\* rule matching its shape.
C3_ResolveDepth ==
  last.op = "resolve" =>
    LET stored == FindOne(objects, last.coll, last.id)
    IN /\ last.depth = 0 => response.body = stored
       /\ last.depth = NoDepth => response.body = Expanded(stored)

\* the data of the Account of session sid lists identifier x, in any list
Listed(accts, sid, x) ==
  LET i == SessionIndex(accts, sid)
  IN /\ i # 0
     /\ \E c \in DOMAIN accts[i].data : InSeq(x, accts[i].data[c])

\* C4: getObjectFromCollection on a stored compilation with a non-empty
\* password answers with the compilation (every stored field, its models
\* expanded) exactly when the session owns it (its Account data lists the
\* identifier) or the supplied password is the stored one; otherwise with the
\* 'Password protected compilation' marker and no field of the compilation.
C4_CompilationReadGate ==
  (/\ last.op = "getObject"
   /\ last.coll = "compilation"
   /\ last.id \in DOMAIN objects["compilation"]
   /\ objects["compilation"][last.id]["password"] # "") =>
    LET c == objects["compilation"][last.id]
        allowed == Listed(accounts, last.sid, last.id) \/ last.password = c["password"]
    IN /\ response.status = "ok"
       /\ allowed => /\ DOMAIN response.body = DOMAIN c
                     /\ \A f \in DOMAIN c \ {"models"} : response.body[f] = c[f]
                     /\ response.message = ""
       /\ ~allowed => /\ response.body = EmptyDoc
                      /\ response.message = PasswordProtected

\* C4 witness: a session that does not own a protected compilation reads it
\* with a wrong password and gets the marker
C4_Witness ==
  /\ last.op = "getObject"
  /\ last.coll = "compilation"
  /\ last.id \in DOMAIN objects["compilation"]
  /\ objects["compilation"][last.id]["password"] = "x"
  /\ last.password = "y"
  /\ SessionIndex(accounts, last.sid) # 0
  /\ ~Listed(accounts, last.sid, last.id)
  /\ response.message = PasswordProtected

(***************************************************************************)
(* Properties of the ownership layer (SpecOwn).                            *)
(***************************************************************************)
\* C5: removeObjectFromCollection takes an entity out of storage only if the
\* username of the request is the username of the Account of the session and
\* that Account's data lists the identifier; when one of the two fails the
\* answer is an error and neither the collections nor the Accounts change.
C5_RemoveGate ==
  [][last'.op = "removeObject" =>
       LET i == SessionIndex(accounts, last'.sid)
           allowed == /\ i # 0
                      /\ last'.username = accounts[i].username
                      /\ Listed(accounts, last'.sid, last'.id)
       IN /\ objects' # objects => allowed
          /\ ~allowed => /\ response'.status = "error"
                         /\ objects' = objects
                         /\ accounts' = accounts]_vars

\* C5 witness: a delete was answered ok and the entity is gone
C5_Witness ==
  /\ last.op = "removeObject"
  /\ response.status = "ok"
  /\ <<last.sid, last.coll, last.id>> \in removed
  /\ last.id \notin DOMAIN objects[last.coll]

\* the "what do I own" response lists, under collection c, an entity with identifier x
ListedInResponse(c, x) ==
  /\ c \in DOMAIN response.body["data"]
  /\ \E k \in 1..Len(response.body["data"][c]) : IdOf(response.body["data"][c][k]) = x

\* C6: once removeObjectFromCollection has answered ok to session S for an
\* entity, the entity is absent from its collection, and every later
\* getCurrentUserData response for S lists it in no data list.
C6_DeleteConsistency ==
  /\ (last.op = "removeObject" /\ response.status = "ok") =>
       last.id \notin DOMAIN objects[last.coll]
  /\ (last.op = "getCurrentUserData" /\ response.status = "ok") =>
       \A d \in removed : d[1] = last.sid => ~ListedInResponse(d[2], d[3])

\* C7: after a delete of X in collection C answered ok, data[C] of the Account
\* of the session holds no reference to X, and every other reference of the
\* Account data is as before.
C7_PrunedFromData ==
  [][(last'.op = "removeObject" /\ response'.status = "ok") =>
       LET i == SessionIndex(accounts, last'.sid)
           before == accounts[i].data
           after == accounts'[i].data
       IN /\ ~InSeq(last'.id, after[last'.coll])
          /\ DOMAIN after = DOMAIN before
          /\ \A c \in DOMAIN before :
               after[c] = SelectSeq(before[c],
                                    LAMBDA x : ~(c = last'.coll /\ x = last'.id))]_vars

\* C8: when submit, submitService or addObjectToCollection answers ok to a
\* session with an Account after creating entities, the Account data lists
\* each created identifier under the collection of the entity.
C8_WritesRecordOwnership ==
  (/\ last.op \in {"submit", "submitService", "addObject"}
   /\ response.status = "ok"
   /\ SessionIndex(accounts, last.sid) # 0) =>
    LET data == accounts[SessionIndex(accounts, last.sid)].data
    IN \A ce \in last.created : ce[1] \in DOMAIN data /\ InSeq(ce[2], data[ce[1]])

NoDuplicates(s) == \A i, j \in 1..Len(s) : s[i] = s[j] => i = j

MaxArrLen == 2

\* [].concat(arr[0]) and result.concat(arr[i]) for the other arguments
RECURSIVE ConcatArgs(_)
ConcatArgs(arr) == IF arr = <<>> THEN <<>> ELSE Head(arr) \o ConcatArgs(Tail(arr))

\* the entries an argument of concatFix holds: a leftover of the tag input, an
\* entry whose _id is no ObjectId, bare references, entries with other fields
ConcatEntries ==
  {[value |-> "t"], [_id |-> BadId, value |-> "t"], Ref(1), Ref(2),
   PersonRef(1, "A"), PersonRef(3, "B")}

ConcatArrays == UNION {[1..n -> ConcatEntries] : n \in 0..MaxArrLen}

\* a call concatFix(a, b), the first request of a behaviour
ConcatFix ==
  \E a \in ConcatArrays, b \in ConcatArrays :
    /\ requests = 0
    /\ requests' = 1
    /\ last' = [op |-> "concatFix", arr |-> <<a, b>>]
    /\ response' = Response("ok", "", concatFix(ConcatArgs(<<a, b>>)))
    /\ UNCHANGED <<objects, accounts, nextId, calls, removed>>

NextConcat == ConcatFix

SpecConcat == Init /\ [][NextConcat]_vars

\* the index of the first entry of s with identifier id
FirstIndex(s, id) ==
  CHOOSE i \in 1..Len(s) : IdOf(s[i]) = id /\ \A j \in 1..(i - 1) : IdOf(s[j]) # id

\* C11: concatFix returns exactly one bare reference { _id } for each distinct
\* valid identifier of the concatenated arguments, in the order of first
\* occurrence, and nothing for the entries without a valid identifier.
C11_ConcatFix ==
  last.op = "concatFix" =>
    LET in == ConcatArgs(last.arr)
        out == response.body
        valid == {IdOf(in[i]) : i \in {j \in 1..Len(in) : ObjectIdIsValid(IdOf(in[j]))}}
    IN /\ \A i \in 1..Len(out) : DOMAIN out[i] = {"_id"} /\ out[i]["_id"] \in valid
       /\ {out[i]["_id"] : i \in 1..Len(out)} = valid
       /\ Len(out) = Cardinality(valid)
       /\ \A i, j \in 1..Len(out) :
            i < j => FirstIndex(in, out[i]["_id"]) < FirstIndex(in, out[j]["_id"])

\* a call in which an identifier occurs in both arguments, with other fields,
\* next to an entry without a valid identifier
C11_Witness ==
  /\ last.op = "concatFix"
  /\ last.arr = <<<<Ref(2), PersonRef(1, "A")>>, <<[value |-> "t"], Ref(1)>>>>
  /\ response.body = <<Ref(2), Ref(1)>>

(***************************************************************************)
(* Models, compilations and annotations written through                    *)
(* addObjectToCollection, and removed again.                               *)
(***************************************************************************)
\* a model as a client embeds it in the models of a compilation
EmbeddedModel == [name |-> "m", relatedDigitalObject |-> Ref(MaxIds + 1)]

\* an annotation of model m, curated in compilation c ('' when in none)
Annotation(m, c) ==
  [body |-> [content |-> [relatedPerspective |-> [preview |-> ""]]],
   target |-> [source |-> [relatedModel |-> m, relatedCompilation |-> c]]]

\* with or without the identifier of a stored entity of the collection
WithStoredIds(coll, doc) == {doc} \cup {Put(doc, "_id", x) : x \in DOMAIN objects[coll]}

\* the documents a client adds, with their collection
LinkedBodies ==
  LET stored == DOMAIN objects["model"]
      entries == {NullDoc, EmbeddedModel} \cup {Ref(m) : m \in stored}
                   \cup {Put(EmbeddedModel, "_id", m) : m \in stored}
      lists == {<<e>> : e \in entries} \cup {<<NullDoc, e>> : e \in entries}
      models == WithStoredIds("model", EmbeddedModel)
      compilations == UNION {WithStoredIds("compilation", [name |-> "c", models |-> l]) :
                               l \in lists}
      annotations ==
        UNION {WithStoredIds("annotation", Annotation(m, c)) :
                 m \in stored, c \in {NoId} \cup DOMAIN objects["compilation"]}
  IN ({"model"} \X models) \cup ({"compilation"} \X compilations)
       \cup ({"annotation"} \X annotations)

\* addObjectToCollection of one of these documents; last keeps the request body
AddLinked ==
  \E sid \in Sessions, cb \in LinkedBodies :
    LET r == addObjectToCollection(objects, accounts, nextId, sid, cb[1], cb[2])
    IN /\ Write(r.objs, r.accts, r.next)
       /\ response' = r.resp
       /\ last' = [op |-> "addObject", sid |-> sid, coll |-> cb[1], body |-> cb[2]]
       /\ calls' = <<>>
       /\ UNCHANGED removed

NextLinked == LoginOwn \/ AddLinked \/ RemoveObject

SpecLinked == Init /\ [][NextLinked]_vars

\* C12: every entry of the models of a stored compilation is a bare reference
\* { _id } with a valid identifier, never an embedded model and never null.
C12_BareModels ==
  \A c \in DOMAIN objects["compilation"] :
    Has(objects["compilation"][c], "models") =>
      \A k \in 1..Len(objects["compilation"][c]["models"]) :
        /\ objects["compilation"][c]["models"][k] # NullDoc
        /\ DOMAIN objects["compilation"][c]["models"][k] = {"_id"}
        /\ ObjectIdIsValid(objects["compilation"][c]["models"][k]["_id"])

\* a completed write of a compilation whose models held null and an embedded model
C12_Witness ==
  /\ last.op = "addObject"
  /\ last.coll = "compilation"
  /\ response.status = "ok"
  /\ Len(last.body["models"]) = 2
  /\ last.body["models"][1] = NullDoc
  /\ Has(last.body["models"][2], "name")
  /\ \E c \in DOMAIN objects["compilation"] : Len(objects["compilation"][c]["models"]) = 1

\* the stored models and compilations whose annotationList holds the identifier a
OwnersOf(a) ==
  {<<coll, o>> \in {"model", "compilation"} \X (1..(MaxIds + 1)) :
     /\ o \in DOMAIN objects[coll]
     /\ Has(objects[coll][o], "annotationList")
     /\ \E k \in 1..Len(objects[coll][o]["annotationList"]) :
          /\ objects[coll][o]["annotationList"][k] # NullDoc
          /\ AnnotationId(objects[coll][o]["annotationList"][k]) = a}

\* C13: every stored annotation is in the annotationList of exactly one stored
\* model or compilation.
C13_NeverOrphaned ==
  \A a \in DOMAIN objects["annotation"] : Cardinality(OwnersOf(a)) = 1

(***************************************************************************)
(* Mongo.submit when the store rejects one of its upserts.  No handler of  *)
(* submit catches inside the pipeline: the rejection of an updateOne of    *)
(* addAndGetId leaves the async handler, and only the final updateOne has  *)
(* a catch.                                                                *)
(***************************************************************************)
RECURSIVE StoreAfter(_, _, _)
\* the store after the first k upserts of log
StoreAfter(objs, log, k) ==
  IF k = 0 THEN objs
  ELSE Upsert(StoreAfter(objs, log, k - 1), log[k].coll, log[k].ref,
              Del(log[k].docAfter, "_id"))

\* submit of body in which upsert number failAt rejects, r being the pipeline
\* without a rejection; upsert number Len(r.w.log) + 1 is the final one
SubmitRejected(sid, body, r) ==
  \E failAt \in 1..(Len(r.w.log) + 1) :
    /\ ~r.thrown
    /\ requests < MaxRequests
    /\ r.w.next <= MaxIds + 1
    /\ requests' = requests + 1
    /\ objects' = StoreAfter(objects, r.w.log, failAt - 1)
    /\ nextId' = r.w.next
    /\ calls' = SubSeq(r.w.log, 1, failAt - 1)
    \* .catch(e => response.send({ status: 'error', message: 'Failed to add' }))
    /\ response' = IF failAt = Len(r.w.log) + 1
                     THEN Response("error", "Failed to add", EmptyDoc)
                     ELSE Response("none", "", EmptyDoc)
    /\ last' = [op |-> "submit", sid |-> sid, body |-> body, failAt |-> failAt,
                upserts |-> Len(r.w.log) + 1]
    /\ UNCHANGED <<accounts, removed>>

SubmitFailing ==
  \E body \in SubmitBodies(objects) :
    SubmitRejected("s1", body, SubmitPipeline(objects, nextId, body))

NextFailing == Submit \/ SubmitFailing

SpecFailing == Init /\ [][NextFailing]_vars

\* C14: when an upsert of a submit request fails, the request writes nothing
\* more and the caller receives status error with message 'Failed to add'.
C14_FailureReported ==
  (last.op = "submit" /\ Has(last, "failAt")) =>
    /\ Len(calls) = last.failAt - 1
    /\ response.status = "error"
    /\ response.message = "Failed to add"

(***************************************************************************)
(* Mongo.removeObjectFromCollection with a store whose deleteOne and       *)
(* updateOne may report result.ok !== 1.                                   *)
(***************************************************************************)
RemoveObjectStore ==
  \E sid \in Sessions, coll \in {"model", "compilation"}, username \in Usernames,
     deleteOk \in BOOLEAN, updateOk \in BOOLEAN :
   \E identifier \in IdsFor(coll) :
    LET r == RemoveWithStore(objects, accounts, sid, coll, identifier, username,
                             deleteOk, updateOk)
    IN /\ Write(r.objs, r.accts, nextId)
       /\ response' = r.resp
       /\ last' = [op |-> "removeObject", sid |-> sid, coll |-> coll, id |-> identifier,
                   username |-> username, objects |-> objects, accounts |-> accounts]
       /\ calls' = <<>>
       /\ UNCHANGED removed

NextRemove == LoginOwn \/ AddOpenObject \/ RemoveObjectStore

SpecRemove == Init /\ [][NextRemove]_vars

\* C15: a remove answered with status error has changed neither the
\* collection nor the Account data; a remove answered ok has deleted the
\* entity and taken its identifier out of the Account data.
C15_NoPartialDelete ==
  last.op = "removeObject" =>
    /\ response.status = "error" =>
         /\ objects[last.coll] = last.objects[last.coll]
         /\ accounts = last.accounts
    /\ response.status = "ok" =>
         /\ last.id \notin DOMAIN objects[last.coll]
         /\ \A i \in 1..Len(accounts) :
              accounts[i].sessionID = last.sid =>
                ~InSeq(last.id, accounts[i].data[last.coll])

(***************************************************************************)
(* Submissions whose person payloads carry a roles map of their own.       *)
(***************************************************************************)
\* a person as a client sends it, with the roles map of a resolved person
PersonWithRoles(list) == [name |-> "n3", roles |-> [o \in {MaxIds + 1} |-> list]]

SubmitRoles ==
  \E list \in {<<"A", "A">>, <<"A", "">>, <<"A", "B">>} :
    SubmitWith("s1", Fill(EmptyDigObj(NoId, personSelector), "digobj_person",
                          PersonWithRoles(list)))

NextRoles == Submit \/ SubmitRoles

SpecRoles == Init /\ [][NextRoles]_vars

\* C16: for every stored person and institution and every owner key o of its
\* roles map, roles[o] holds no role tag twice and no falsy element.
C16_RoleSets ==
  \A coll \in {"person", "institution"} :
    \A id \in DOMAIN objects[coll] :
      Has(objects[coll][id], "roles") =>
        \A o \in DOMAIN objects[coll][id]["roles"] :
          /\ NoDuplicates(objects[coll][id]["roles"][o])
          /\ \A k \in 1..Len(objects[coll][id]["roles"][o]) :
               objects[coll][id]["roles"][o][k] # ""

(***************************************************************************)
(* Interleaved submits.  Every await of a request is a point where another *)
(* request may run: a request whose digobj_person holds one person awaits  *)
(* the findOne of addAndGetId (when the payload has a valid identifier),   *)
(* then its updateOne, then the final updateOne of the digital object.     *)
(***************************************************************************)
MaxRacers == 3

\* the person a request carries in digobj_person
RacePayloads == {NewPerson("A")} \cup {PersonRef(p, r) : p \in DOMAIN objects["person"],
                                                         r \in Roles}

\* the steps taken so far
Clock == last.id

\* the request starts: resultObject._id and, in addAndGetId, _id are fixed
RaceBegin ==
  \E payload \in RacePayloads :
    /\ requests < MaxRacers
    /\ requests' = requests + 1
    /\ nextId' = IF ObjectIdIsValid(IdOf(payload)) THEN nextId + 1 ELSE nextId + 2
    /\ calls' = Append(calls,
                       [owner |-> nextId, payload |-> payload,
                        id |-> TargetId(payload, nextId + 1),
                        pc |-> IF ObjectIdIsValid(IdOf(payload)) THEN "findOne" ELSE "updateOne",
                        findResult |-> NullDoc, readAt |-> 0, wroteAt |-> 0])
    /\ last' = [Request("submit", "s1") EXCEPT !.id = Clock + 1]
    /\ UNCHANGED <<objects, accounts, response, removed>>

\* the store at the time of the updateOne, as if findOne and updateOne were one step
StoreNow(objs, c) == objs

\* the store as the request saw it: the person is the result of its findOne
FindResult(objs, c) ==
  IF c.findResult = NullDoc THEN [objs EXCEPT !["person"] = <<>>]
  ELSE [objs EXCEPT !["person"] = [k \in {c.id} |-> c.findResult]]

\* const findResult = await coll.findOne({ _id })
RaceFindOne ==
  \E i \in 1..Len(calls) :
    /\ calls[i].pc = "findOne"
    /\ calls' = [calls EXCEPT ![i].pc = "updateOne",
                              ![i].findResult = FindOne(objects, "person", calls[i].id),
                              ![i].readAt = Clock + 1]
    /\ last' = [Request("submit", "s1") EXCEPT !.id = Clock + 1]
    /\ UNCHANGED <<objects, accounts, nextId, response, removed, requests>>

\* await coll.updateOne({ _id }, { $set: field, ... }, { upsert: true }), field
\* having been merged with what findOne returned
RaceUpdateOne ==
  \E i \in 1..Len(calls) :
    /\ calls[i].pc = "updateOne"
    /\ objects' = Upsert(objects, "person", calls[i].id,
                         AddAndGetIdField(World(FindResult(objects, calls[i]), nextId),
                                          calls[i].payload, "person", JNull,
                                          calls[i].owner, calls[i].id))
    /\ calls' = [calls EXCEPT ![i].pc = "final", ![i].wroteAt = Clock + 1]
    /\ last' = [Request("submit", "s1") EXCEPT !.id = Clock + 1]
    /\ UNCHANGED <<accounts, nextId, response, removed, requests>>

\* the final updateOne of the digital object, and the response
RaceFinal ==
  \E i \in 1..Len(calls) :
    /\ calls[i].pc = "final"
    /\ objects' = Upsert(objects, "digitalobject", calls[i].owner,
                         Put(EmptyDigObj(NoId, personSelector), "digobj_person_existing",
                             concatFix(<<Ref(calls[i].id)>>)))
    /\ calls' = [calls EXCEPT ![i].pc = "done"]
    /\ response' = Response("ok", "", FindOne(objects', "digitalobject", calls[i].owner))
    /\ last' = [Request("submit", "s1") EXCEPT !.id = Clock + 1]
    /\ UNCHANGED <<accounts, nextId, removed, requests>>

NextRace == RaceBegin \/ RaceFindOne \/ RaceUpdateOne \/ RaceFinal

SpecRace == Init /\ [][NextRace]_vars

\* request i wrote the person that request j had read before, and j wrote it
\* last; both have completed with status ok
Overwritten(i, j) ==
  /\ i # j
  /\ calls[i].pc = "done" /\ calls[j].pc = "done"
  /\ calls[i].id = calls[j].id
  /\ calls[i].readAt > 0 /\ calls[j].readAt > 0
  /\ calls[j].readAt < calls[i].wroteAt /\ calls[i].wroteAt < calls[j].wroteAt
  /\ \A k \in 1..Len(calls) :
       calls[k].id = calls[j].id => calls[k].wroteAt <= calls[j].wroteAt

\* the stored person lacks the role tag that request i added for its owner
RoleLost(i) ==
  LET roles == objects["person"][calls[i].id]["roles"]
  IN \/ calls[i].owner \notin DOMAIN roles
     \/ \E k \in 1..Len(calls[i].payload["person_role"].v) :
          ~InSeq(calls[i].payload["person_role"].v[k], roles[calls[i].owner])

\* C17: two interleaved submits with different owners that normalize the same
\* stored person can both complete with status ok and leave the person
\* without the role tag of one of them: whenever the second writer had read
\* the person before the first one wrote it, the first one's tag is lost.
C17_LostRoleUpdate ==
  \A i, j \in 1..Len(calls) : Overwritten(i, j) => RoleLost(i)

\* both requests have completed and the role tag of one of them is missing
C17_Witness ==
  \E i, j \in 1..Len(calls) :
    /\ Overwritten(i, j)
    /\ calls[i].owner # calls[j].owner
    /\ response.status = "ok"
    /\ RoleLost(i)
    /\ ~RoleLost(j)

\* C18: two submits, interleaved or one after the other, that each carry the
\* same person payload without a valid identifier leave two person entities
\* with different identifiers.
C18_NoContentDeduplication ==
  \A i, j \in 1..Len(calls) :
    (/\ i # j
     /\ calls[i].payload = calls[j].payload
     /\ ~ObjectIdIsValid(IdOf(calls[i].payload))
     /\ calls[i].pc = "done" /\ calls[j].pc = "done") =>
      /\ calls[i].id # calls[j].id
      /\ calls[i].id \in DOMAIN objects["person"]
      /\ calls[j].id \in DOMAIN objects["person"]

\* two such submits have completed, the second having started before the
\* first one wrote its person
C18_Witness ==
  \E i, j \in 1..Len(calls) :
    /\ i < j
    /\ calls[i].payload = NewPerson("A") /\ calls[j].payload = NewPerson("A")
    /\ calls[i].pc = "done" /\ calls[j].pc = "done"
    /\ calls[j].wroteAt < calls[i].wroteAt
    /\ Cardinality(DOMAIN objects["person"]) >= 2

(***************************************************************************)
(* Mongo.searchObjectWithFilter.  A string is a sequence of characters, so *)
(* that toLowerCase, join and indexOf are computed.  A value is a string,  *)
(* a number, null, an array of values, or an object given by the values of *)
(* its properties in the order of Object.keys.  The collections are those  *)
(* of the default branch of the switch; the ObjectId under _id is taken to *)
(* expose no string property.                                              *)
(***************************************************************************)
MaxDocs == 2

TStr(chars) == [k |-> "string", s |-> chars]

TNum(n) == [k |-> "number", n |-> n]

TNull == [k |-> "null"]

TArr(items) == [k |-> "array", v |-> items]

TObj(props) == [k |-> "object", v |-> props]

\* the condition "&& prop": '', 0 and null are falsy
TruthyValue(x) ==
  CASE x.k = "string" -> x.s # <<>>
    [] x.k = "number" -> x.n # 0
    [] x.k = "null" -> FALSE
    [] OTHER -> TRUE

\* obj[key] for the keys of Object.keys(obj): the properties of an object,
\* the items of an array, the characters of a string, nothing of a number
ObjectKeys(x) ==
  CASE x.k = "string" -> [i \in 1..Len(x.s) |-> TStr(<<x.s[i]>>)]
    [] x.k = "number" -> <<>>
    [] OTHER -> x.v

RECURSIVE getNestedValues(_)
getNestedValues(obj) ==
  LET keys == ObjectKeys(obj)
      ofProp(prop) ==
        IF ~TruthyValue(prop) THEN <<>>
        ELSE IF prop.k = "object" THEN getNestedValues(prop)
        ELSE IF prop.k = "array"
          THEN ConcatArgs([i \in 1..Len(prop.v) |-> getNestedValues(prop.v[i])])
        ELSE IF prop.k = "string" THEN <<prop.s>>
        ELSE <<>>
  IN ConcatArgs([i \in 1..Len(keys) |-> ofProp(keys[i])])

\* strings.join('')
Join(strings) == ConcatArgs(strings)

LowerChar(c) == CASE c = "A" -> "a" [] c = "B" -> "b" [] OTHER -> c

toLowerCase(chars) == [i \in 1..Len(chars) |-> LowerChar(chars[i])]

\* text.indexOf(term): the first position, counted from 0, or -1
indexOf(text, term) ==
  LET at == {i \in 0..(Len(text) - Len(term)) : SubSeq(text, i + 1, i + Len(term)) = term}
  IN IF at = {} THEN 0 - 1 ELSE CHOOSE i \in at : \A j \in at : i <= j

\* request.body.filter when the body carries none
NoFilter == [absent |-> TRUE, terms |-> <<>>]

\* request.body.filter when it is the list terms
FilterList(terms) == [absent |-> FALSE, terms |-> terms]

\* (request.body.filter) ? request.body.filter.map(_ => _.toLowerCase()) : ['']
LoweredFilter(filter) ==
  IF filter.absent THEN <<<<>>>>
  ELSE [i \in 1..Len(filter.terms) |-> toLowerCase(filter.terms[i])]

\* the inner loop of filterResults from index j (counted from 1): TRUE when
\* the identifier is pushed
RECURSIVE FilterLoop(_, _, _)
FilterLoop(asText, filter, j) ==
  IF j > Len(filter) THEN FALSE
  ELSE IF indexOf(asText, filter[j]) = 0 - 1 THEN FALSE
  ELSE IF j = Len(filter) THEN TRUE
  ELSE FilterLoop(asText, filter, j + 1)

\* find({}).toArray(): the identifiers of the collection in stored order
RECURSIVE getAllItemsOfCollection(_, _, _)
getAllItemsOfCollection(objs, coll, id) ==
  IF id > MaxDocs + 1 THEN <<>>
  ELSE (IF id \in DOMAIN objs[coll] THEN <<id>> ELSE <<>>)
         \o getAllItemsOfCollection(objs, coll, id + 1)

filterResults(objs, coll, filter) ==
  SelectSeq(getAllItemsOfCollection(objs, coll, 1),
            LAMBDA id : FilterLoop(toLowerCase(Join(getNestedValues(objs[coll][id]))),
                                   filter, 1))

\* the documents of a searched collection
TextDocs ==
  {TObj(<<TObj(<<>>), TStr(<<"a", "B">>)>>),
   TObj(<<TObj(<<>>), TStr(<<"a">>), TObj(<<TNum(1), TStr(<<"b">>)>>)>>),
   TObj(<<TObj(<<>>), TArr(<<TObj(<<TStr(<<"B">>)>>), TObj(<<TStr(<<"a">>)>>)>>)>>),
   TObj(<<TObj(<<>>), TArr(<<TStr(<<"a", "b">>), TNum(2)>>)>>),
   TObj(<<TObj(<<>>), TStr(<<>>), TNum(0), TNull>>),
   TObj(<<TObj(<<>>), TStr(<<"A">>), TStr(<<"a">>)>>)}

\* the values of request.body.filter
SearchFilters ==
  {NoFilter} \cup
  {FilterList(terms) : terms \in
     {<<>>, <<<<>>>>, <<<<"a">>>>, <<<<"A">>>>, <<<<"a", "b">>>>, <<<<"B", "a">>>>,
      <<<<"a">>, <<"B">>>>, <<<<"b">>, <<"a", "a">>>>}}

\* a document comes to be stored in the searched collection
StoreText ==
  \E doc \in TextDocs :
    /\ requests < MaxDocs
    /\ requests' = requests + 1
    /\ objects' = [objects EXCEPT !["tag"] =
                     [k \in DOMAIN objects["tag"] \cup {nextId} |->
                        IF k = nextId THEN doc ELSE objects["tag"][k]]]
    /\ nextId' = nextId + 1
    /\ last' = [op |-> "store", coll |-> "tag", id |-> nextId]
    /\ response' = Response("none", "", EmptyDoc)
    /\ UNCHANGED <<accounts, calls, removed>>

\* POST search/:collection; response.send(filterResults(allObjects))
SearchObjectWithFilter ==
  \E filter \in SearchFilters :
    /\ last' = [op |-> "search", coll |-> "tag", filter |-> filter]
    /\ response' = Response("sent", "", filterResults(objects, "tag", LoweredFilter(filter)))
    /\ UNCHANGED <<objects, accounts, nextId, calls, removed, requests>>

NextSearch == StoreText \/ SearchObjectWithFilter

SpecSearch == Init /\ [][NextSearch]_vars

\* term is a substring of text
IsSubstring(term, text) ==
  \E i \in 0..(Len(text) - Len(term)) : SubSeq(text, i + 1, i + Len(term)) = term

\* every term of the filter list, lower-cased, is a substring of the
\* lower-cased concatenation of the nested string fields of doc
MatchesAll(filter, doc) ==
  LET terms == filter.terms
  IN \A k \in 1..Len(terms) :
       IsSubstring(toLowerCase(terms[k]), toLowerCase(Join(getNestedValues(doc))))

\* C19: searchObjectWithFilter returns the identifier of a document if and
\* only if every term of the filter list, lower-cased, is a substring of the
\* lower-cased concatenation of the document's nested string fields, for
\* every filter list, the empty list (every document is returned) and an
\* absent filter included.
C19_SearchIsConjunction ==
  last.op = "search" =>
    \A id \in DOMAIN objects[last.coll] :
      InSeq(id, response.body) <=> MatchesAll(last.filter, objects[last.coll][id])

\* the same for the absent filter and the filter lists with a term
SearchWithTerms ==
  (last.op = "search" /\ (last.filter.absent \/ last.filter.terms # <<>>)) =>
    \A id \in DOMAIN objects[last.coll] :
      InSeq(id, response.body) <=> MatchesAll(last.filter, objects[last.coll][id])

\* a search with two terms has returned one of two stored documents
C19_Witness ==
  /\ last.op = "search"
  /\ Len(last.filter.terms) = 2
  /\ Len(response.body) = 1
  /\ Cardinality(DOMAIN objects[last.coll]) = 2

(***************************************************************************)
(* Not found and found: documents of any shape, one with no field besides  *)
(* its identifier among them, are added and then fetched by identifier.    *)
(***************************************************************************)
\* the documents a client adds here, with their collection
PlainBodies ==
  ({"tag"} \X (WithIds("tag", EmptyDoc) \cup WithIds("tag", [value |-> "t"])
                 \cup WithIds("tag", [status |-> "error"])))
    \cup ({"model"} \X WithIds("model", [name |-> "m", relatedDigitalObject |-> Ref(NoId)]))

AddPlain == AddObjectOf(PlainBodies)

\* GET :collection/:identifier of any identifier, one that is no ObjectId included
GetPlain ==
  \E sid \in Sessions, coll \in {"tag", "model"} :
   \E identifier \in IdsFor(coll) \cup {BadId} :
    /\ response' = getObjectFromCollection(objects, accounts, sid, coll, identifier, "")
    /\ last' = [Request("getObject", sid) EXCEPT !.coll = coll, !.id = identifier]
    /\ calls' = <<>>
    /\ Read

\* Mongo.resolve of the same identifiers
ResolvePlain ==
  \E coll \in {"tag", "model"} :
   \E identifier \in IdsFor(coll) \cup {BadId} :
    /\ response' = Response("none", "", resolve(objects, identifier, coll, NoDepth))
    /\ last' = [Request("resolve", "") EXCEPT !.coll = coll, !.id = identifier]
    /\ calls' = <<>>
    /\ Read

NextFound == LoginOwn \/ AddPlain \/ GetPlain \/ ResolvePlain

SpecFound == Init /\ [][NextFound]_vars

\* the identifier of the last request names a stored document of its collection
IsStored == ObjectIdIsValid(last.id) /\ last.id \in DOMAIN objects[last.coll]

\* resolve yields no entity, and getObjectFromCollection the error named after
\* the collection, when the identifier is invalid or names no stored document
NotFoundReported ==
  /\ (last.op = "resolve" /\ ~IsStored) => response.body = NullDoc
  /\ (last.op = "getObject" /\ ~IsStored) =>
       /\ response.status = "error"
       /\ response.message = "No " \o last.coll \o " found with given identifier"

\* C20: resolve yields no entity when the identifier is structurally invalid
\* or no document with that identifier is stored in the collection, and
\* getObjectFromCollection then responds with status error 'No <collection>
\* found with given identifier'; whenever a document with that identifier is
\* stored, even one with no fields besides its identifier, the response has
\* status ok.
C20_NotFoundOrOk ==
  /\ NotFoundReported
  /\ (last.op = "getObject" /\ IsStored) => response.status = "ok"

\* the same, of the stored documents that have no property named status
FoundWithoutStatus ==
  /\ NotFoundReported
  /\ (last.op = "getObject" /\ IsStored /\ ~Has(objects[last.coll][last.id], "status")) =>
       response.status = "ok"

\* a document with no field besides its identifier has been fetched
OnlyIdFetched ==
  /\ last.op = "getObject"
  /\ IsStored
  /\ DOMAIN objects[last.coll][last.id] = {"_id"}
  /\ response.status = "ok"

\* C21: in every state reachable by submit, submitService and
\* addObjectToCollection requests, no identifier is the key of two different
\* stored entities, in the same collection or in two different collections.
\* (A collection is a function of the identifier, as _id is unique in it.)
C21_UniqueIdentifiers ==
  \A c1 \in Collections, c2 \in Collections :
    c1 # c2 => DOMAIN objects[c1] \cap DOMAIN objects[c2] = {}

(***************************************************************************)
(* Annotations that lack a required field, written through                 *)
(* addObjectToCollection among well-formed models, compilations and        *)
(* annotations.                                                            *)
(***************************************************************************)
\* the annotation a without what the claim of validation names, one field at
\* a time; m is no ObjectId
DeficientOf(a, m) ==
  {Del(a, "target"),
   Put(a, "target", EmptyDoc),
   Del(a, "body"),
   Put(a, "body", EmptyDoc),
   Put(a, "body", [content |-> EmptyDoc]),
   Put(a, "target", [source |-> Del(a["target"]["source"], "relatedModel")]),
   Put(a, "target", [source |-> Del(a["target"]["source"], "relatedCompilation")]),
   Put(a, "target", [source |-> Put(a["target"]["source"], "relatedModel", m)])}

DeficientAnnotations ==
  UNION {WithStoredIds("annotation", d) :
           d \in UNION {DeficientOf(Annotation(m, c), BadId) :
                          m \in DOMAIN objects["model"] \cup ClientIds,
                          c \in {NoId} \cup DOMAIN objects["compilation"]}}

\* POST annotation with one of these bodies; last keeps the store and the
\* accounts as they were before the request
AddDeficient ==
  \E sid \in Sessions, body \in DeficientAnnotations :
    LET r == addObjectToCollection(objects, accounts, nextId, sid, "annotation", body)
    IN /\ Write(r.objs, r.accts, r.next)
       /\ response' = r.resp
       /\ last' = [op |-> "addDeficient", sid |-> sid, coll |-> "annotation", body |-> body,
                   objects |-> objects, accounts |-> accounts]
       /\ calls' = <<>>
       /\ UNCHANGED removed

NextAnnotate == LoginOwn \/ AddLinked \/ AddDeficient

SpecAnnotate == Init /\ [][NextAnnotate]_vars

\* C22: an addObjectToCollection request carrying an annotation that lacks
\* target, target.source, body.content.relatedPerspective, relatedModel or
\* relatedCompilation, or whose relatedModel is no valid identifier, gets a
\* status error response and causes no store write: no annotation upsert, no
\* annotationList update and no Account data update.
C22_AnnotationValidation ==
  last.op = "addDeficient" =>
    /\ response.status = "error"
    /\ objects = last.objects
    /\ accounts = last.accounts

\* the same, of the bodies that the type guard takes for an annotation
ValidationOfRecognised ==
  (last.op = "addDeficient" /\ isAnnotation(last.body)) =>
    /\ response.status = "error"
    /\ objects = last.objects
    /\ accounts = last.accounts

(***************************************************************************)
(* Submissions whose payloads name a stored person and carry a roles map   *)
(* (as a client holds it from an earlier read), or both role properties.   *)
(***************************************************************************)
\* the payloads for the stored person p: with an empty roles map, with the
\* stored roles map, with both role properties
StoredPersonPayloads(p) ==
  {[_id |-> p, roles |-> EmptyDoc, person_role |-> JArr(<<"B">>)],
   [_id |-> p, person_role |-> JArr(<<"B">>), institution_role |-> JArr(<<"A">>)]}
    \cup (IF Has(objects["person"][p], "roles")
            THEN {[_id |-> p, roles |-> objects["person"][p]["roles"],
                   person_role |-> JArr(<<"B">>)]}
            ELSE {})

SubmitStoredPerson ==
  \E p \in DOMAIN objects["person"] : \E payload \in StoredPersonPayloads(p) :
    SubmitWith("s1", Fill(EmptyDigObj(NoId, personSelector), "digobj_person", payload))

NextAdditive == Submit \/ SubmitStoredPerson

SpecAdditive == Init /\ [][NextAdditive]_vars

\* every role tag of the document before call c is under the same owner key
\* in the document after it
TagsKept(c) ==
  Has(c.docBefore, "roles") =>
    \A o \in DOMAIN c.docBefore["roles"] :
      \A i \in 1..Len(c.docBefore["roles"][o]) :
        /\ Has(c.docAfter, "roles")
        /\ o \in DOMAIN c.docAfter["roles"]
        /\ InSeq(c.docBefore["roles"][o][i], c.docAfter["roles"][o])

\* C23: for every Normalizer call in any sequence of submissions, every role
\* tag stored in roles[o] of a Person or Institution before the call is still
\* in roles[o] after the call, for every owner key o, also when the payload
\* carries both person_role and institution_role or its own roles field.
C23_RolesAdditive ==
  \A k \in 1..Len(calls) :
    calls[k].coll \in {"person", "institution"} => TagsKept(calls[k])

\* the same, of the payloads that carry no roles field
AdditiveWithoutRoles ==
  \A k \in 1..Len(calls) :
    (calls[k].coll \in {"person", "institution"} /\ ~Has(calls[k].payload, "roles")) =>
      TagsKept(calls[k])

\* a person with a role tag under another owner has been normalized with a
\* payload that carries both role properties, and has kept the tag
BothRolesKept ==
  \E k \in 1..Len(calls) :
    /\ Has(calls[k].payload, "institution_role") /\ Has(calls[k].payload, "person_role")
    /\ Has(calls[k].docBefore, "roles")
    /\ \E o \in DOMAIN calls[k].docBefore["roles"] : calls[k].docBefore["roles"][o] # <<>>
    /\ TagsKept(calls[k])

(***************************************************************************)
(* Submissions whose person and institution payloads carry a               *)
(* person_institution list, with entries marked 'add_new_institution'.     *)
(***************************************************************************)
MaxNested == 2

\* the lists person_institution of up to MaxNested entries
InstitutionMarks ==
  UNION {[1..n -> {[value |-> "add_new_institution"], [value |-> "i0"]}] : n \in 0..MaxNested}

\* the institution a payload carries for an entry of its list
NestedInstitution == [name |-> "i2"]

\* payload with the list marks, and an institution of its own for each entry
WithInstitutions(payload, marks) ==
  Merge(payload, [person_institution |-> marks,
                  person_institution_data |-> [i \in 1..Len(marks) |-> NestedInstitution]])

\* forms with one such person, and forms with one such institution as rights-owner
NestedBodies ==
  {Fill(EmptyDigObj(NoId, personSelector), "digobj_person",
        WithInstitutions(NewPerson("A"), marks)) : marks \in InstitutionMarks}
    \cup {Fill(Fill(EmptyDigObj(NoId, personSelector), "digobj_rightsowner",
                    [value |-> "add_new_institution"]),
               "digobj_rightsowner_institution",
               WithInstitutions(NewInstitution("A"), marks)) : marks \in InstitutionMarks}

\* what a submit of body with result r leaves, the identifiers staying below
\* maxNext; last keeps the form
SubmitKeepingForm(body, r, maxNext) ==
  /\ r.next <= maxNext
  /\ objects' = r.objs
  /\ nextId' = r.next
  /\ calls' = r.log
  /\ response' = r.resp
  /\ last' = [op |-> "submitNested", body |-> body, id |-> r.id]
  /\ UNCHANGED <<accounts, removed>>

SubmitNestedEffect(body, r) == SubmitKeepingForm(body, r, MaxIds + MaxNested)

SubmitNested ==
  \E body \in NestedBodies :
    /\ requests < MaxRequests
    /\ requests' = requests + 1
    /\ SubmitNestedEffect(body, SubmitResult(objects, nextId, body))

NextNested == SubmitNested

SpecNested == Init /\ [][NextNested]_vars

\* the upserts of calls into collection coll
UpsertsInto(coll) == Cardinality({k \in 1..Len(calls) : calls[k].coll = coll})

\* the upserts of calls of a nested institution
NestedUpserts == Cardinality({k \in 1..Len(calls) : calls[k].payload = NestedInstitution})

\* the form of the last request carries at most one marked entry in each list
OneMark ==
  \A b \in {last.body["digobj_person"], last.body["digobj_rightsowner_institution"]} :
    \A k \in 1..Len(b) :
      Cardinality({i \in 1..Len(b[k]["person_institution"]) :
                     b[k]["person_institution"][i]["value"] = "add_new_institution"}) <= 1

\* C24: one addAndGetId call for a Person payload performs exactly one upsert
\* into the person collection and at most one upsert into the institution
\* collection, whatever the number of entries of person_institution marked
\* 'add_new_institution'; an institution payload triggers no nested
\* normalization.
C24_UpsertCount ==
  last.op = "submitNested" =>
    /\ Len(last.body["digobj_person"]) = 1 =>
         /\ UpsertsInto("person") = 1
         /\ UpsertsInto("institution") <= 1
    /\ Len(last.body["digobj_rightsowner_institution"]) = 1 =>
         /\ NestedUpserts = 0
         /\ UpsertsInto("person") = 0

\* the same, of the payloads with at most one marked entry
UpsertCountOneMark ==
  (last.op = "submitNested" /\ OneMark) =>
    /\ Len(last.body["digobj_person"]) = 1 =>
         /\ UpsertsInto("person") = 1
         /\ UpsertsInto("institution") <= 1
    /\ Len(last.body["digobj_rightsowner_institution"]) = 1 =>
         /\ NestedUpserts = 0
         /\ UpsertsInto("person") = 0

\* an institution payload with two marked entries has been normalized
InstitutionWithMarks ==
  /\ last.op = "submitNested"
  /\ Len(last.body["digobj_rightsowner_institution"]) = 1
  /\ ~OneMark
  /\ UpsertsInto("institution") >= 1
  /\ response.status = "ok"

(***************************************************************************)
(* Submissions with a new rights-owner and 'existing' entries that carry   *)
(* no identifier, at the top level and in a physical object.               *)
(***************************************************************************)
\* an entry of an 'existing' array without an identifier, for roleProperty
SameAsRightsOwner(roleProperty, r) ==
  Put([value |-> "add_to_new_rightsowner"], roleProperty, JArr(<<r>>))

\* a digital object with a new person as rights-owner
WithNewOwner ==
  Fill(Fill(EmptyDigObj(NoId, personSelector), "digobj_rightsowner",
            [value |-> "add_new_person"]),
       "digobj_rightsowner_person", NewPerson("A"))

\* a physical object with a new person, or a new institution, as rights-owner
PhyWithNewOwner(coll) ==
  IF coll = "person"
    THEN Fill(Fill(EmptyPhyObj(personSelector), "phyobj_rightsowner",
                   [value |-> "add_new_person"]),
              "phyobj_rightsowner_person", NewPerson("A"))
    ELSE Fill(Fill(EmptyPhyObj(instSelector), "phyobj_rightsowner",
                   [value |-> "add_new_institution"]),
              "phyobj_rightsowner_institution", NewInstitution("A"))

ExistingBodies ==
  {Fill(WithNewOwner, slot, SameAsRightsOwner("person_role", r)) :
     slot \in {"digobj_person_existing", "contact_person_existing"}, r \in Roles}
    \cup {Fill(EmptyDigObj(NoId, personSelector), "phyObjs",
               Fill(PhyWithNewOwner("person"), "phyobj_person_existing",
                    SameAsRightsOwner("person_role", r))) : r \in Roles}
    \cup {Fill(EmptyDigObj(NoId, personSelector), "phyObjs",
               Fill(PhyWithNewOwner("institution"), "phyobj_institution_existing",
                    SameAsRightsOwner("institution_role", r))) : r \in Roles}

SubmitExisting ==
  \E body \in ExistingBodies :
    /\ requests < MaxRequests
    /\ requests' = requests + 1
    /\ SubmitNestedEffect(body, SubmitResult(objects, nextId, body))

NextExisting == Submit \/ SubmitExisting

SpecExisting == Init /\ [][NextExisting]_vars

\* call c normalizes the newObj that handleRightsOwnerAndExisting builds
IsExistingCall(c) ==
  DOMAIN c.payload \in {{"_id", "person_role"}, {"_id", "institution_role"}}

\* call k is made under the identifier of the rights-owner normalized before
\* it under the same owner key
UnderRightsOwner(k) ==
  \E j \in 1..(k - 1) :
    /\ calls[j].owner = calls[k].owner
    /\ calls[j].coll = calls[k].coll
    /\ Has(calls[j].payload, "name")
    /\ calls[j].ref = calls[k].ref

\* C25: in submit, for the top-level slots and for every PhysicalObject
\* sub-graph, each entry of an 'existing' array that carries no valid
\* identifier of its own is normalized under the identifier of the resolved
\* rights-owner: its role tag is added to the rights-owner entity and no
\* entity with any other identifier is created or updated for that entry.
C25_FallbackIdentifier ==
  last.op = "submitNested" =>
    \A k \in 1..Len(calls) : IsExistingCall(calls[k]) => UnderRightsOwner(k)

\* the same, of the top-level slots
FallbackTopLevel ==
  (last.op = "submitNested" /\ last.body["phyObjs"] = <<>>) =>
    \A k \in 1..Len(calls) : IsExistingCall(calls[k]) => UnderRightsOwner(k)

\* a top-level 'existing' entry has added its role tag to the new rights-owner
FallbackTaken ==
  /\ last.op = "submitNested"
  /\ last.body["phyObjs"] = <<>>
  /\ \E k \in 1..Len(calls) :
       /\ IsExistingCall(calls[k])
       /\ UnderRightsOwner(k)
       /\ InSeq("B", calls[k].docAfter["roles"][calls[k].owner])

(***************************************************************************)
(* Submissions with physical objects.  The role tags tell where an entry   *)
(* was sent: "D" in the top-level arrays, "P1", "P2" and "P3" in the       *)
(* first, the second and the third physical object.                        *)
(***************************************************************************)
MaxGraphIds == 8

MaxPhyObjs == 2

PhyTag(i) == <<"P1", "P2", "P3">>[i]

\* the top-level part of a form
TopLevelForms ==
  {EmptyDigObj(NoId, personSelector),
   Fill(EmptyDigObj(NoId, personSelector), "digobj_person", NewPerson("D")),
   Fill(Fill(Fill(EmptyDigObj(NoId, personSelector), "digobj_rightsowner",
                  [value |-> "add_new_person"]),
             "digobj_rightsowner_person", NewPerson("D")),
        "digobj_person_existing", SameAsRightsOwner("person_role", "D"))}
    \cup {Fill(EmptyDigObj(NoId, personSelector), "digobj_person", PersonRef(x, "D")) :
            x \in DOMAIN objects["person"]}

\* the physical objects a form holds at position i
PhyForms(i) ==
  {Fill(EmptyPhyObj(personSelector), "phyobj_person", NewPerson(PhyTag(i))),
   Fill(EmptyPhyObj(personSelector), "phyobj_institution", NewInstitution(PhyTag(i))),
   Fill(Fill(Fill(EmptyPhyObj(personSelector), "phyobj_rightsowner",
                  [value |-> "add_new_person"]),
             "phyobj_rightsowner_person", NewPerson(PhyTag(i))),
        "phyobj_person_existing", SameAsRightsOwner("person_role", PhyTag(i)))}
    \cup {Fill(EmptyPhyObj(personSelector), "phyobj_person", PersonRef(x, PhyTag(i))) :
            x \in DOMAIN objects["person"]}

PhyLists ==
  {<<>>} \cup {<<a>> : a \in PhyForms(1)}
    \cup (IF MaxPhyObjs >= 2 THEN {<<a, b>> : a \in PhyForms(1), b \in PhyForms(2)} ELSE {})
    \cup (IF MaxPhyObjs >= 3
            THEN {<<a, b, c>> : a \in PhyForms(1), b \in PhyForms(2), c \in PhyForms(3)}
          ELSE {})

GraphBodies == {Put(t, "phyObjs", l) : t \in TopLevelForms, l \in PhyLists}

SubmitGraph ==
  \E body \in GraphBodies :
    /\ requests < MaxRequests
    /\ requests' = requests + 1
    /\ SubmitKeepingForm(body, SubmitResult(objects, nextId, body), MaxGraphIds + 1)

NextGraph == SubmitGraph

SpecGraph == Init /\ [][NextGraph]_vars

\* the identifiers of the stored physical objects at position i of a stored
\* digital object
PhyIdsAt(i) ==
  {IdOf(objects["digitalobject"][d]["phyObjs"][i]) :
     d \in {x \in DOMAIN objects["digitalobject"] :
              Len(objects["digitalobject"][x]["phyObjs"]) >= i}}

\* the owner keys under which a stored person or institution holds tag
KeysOf(tag) ==
  {o \in AllIds(objects) :
     \E coll \in {"person", "institution"} : \E e \in DOMAIN objects[coll] :
       /\ Has(objects[coll][e], "roles")
       /\ o \in DOMAIN objects[coll][e]["roles"]
       /\ InSeq(tag, objects[coll][e]["roles"][o])}

\* C26: every role tag added while processing PhysicalObject sub-graph i is
\* stored under the key equal to the identifier of PhysicalObject i, and
\* every role tag added while processing the top-level arrays under the
\* identifier of the DigitalObject; no role of a PhysicalObject is stored
\* under the DigitalObject's identifier or under another PhysicalObject's.
C26_RoleMapKeys ==
  /\ KeysOf("D") \subseteq DOMAIN objects["digitalobject"]
  /\ KeysOf("CONTACT_PERSON") \subseteq DOMAIN objects["digitalobject"]
  /\ \A i \in 1..MaxPhyObjs : KeysOf(PhyTag(i)) \subseteq PhyIdsAt(i)
  /\ last.op = "submitNested" =>
       \A k \in 1..Len(calls) :
         (calls[k].coll \in {"person", "institution"}) =>
           /\ DOMAIN calls[k].docAfter["roles"] \ {calls[k].owner}
                = (IF Has(calls[k].docBefore, "roles")
                     THEN DOMAIN calls[k].docBefore["roles"] ELSE {}) \ {calls[k].owner}
           /\ \A prop \in {"person_role", "institution_role"} :
                (Has(calls[k].payload, prop) /\ calls[k].payload[prop].v = <<"D">>) =>
                  calls[k].owner = last.id
           /\ \A prop \in {"person_role", "institution_role"} :
              \A i \in 1..Len(objects["digitalobject"][last.id]["phyObjs"]) :
                (Has(calls[k].payload, prop) /\ calls[k].payload[prop].v = <<PhyTag(i)>>) =>
                  calls[k].owner = IdOf(objects["digitalobject"][last.id]["phyObjs"][i])

\* one request has stored tags of the top level and of two physical objects,
\* one person holding a tag of each physical object under its identifier
C26_Witness ==
  /\ last.op = "submitNested"
  /\ response.status = "ok"
  /\ Len(objects["digitalobject"][last.id]["phyObjs"]) = 2
  /\ KeysOf("D") = {last.id}
  /\ \E e \in DOMAIN objects["person"] :
       /\ Has(objects["person"][e], "roles")
       /\ \A i \in 1..2 :
            LET o == IdOf(objects["digitalobject"][last.id]["phyObjs"][i])
            IN /\ o \in DOMAIN objects["person"][e]["roles"]
               /\ objects["person"][e]["roles"][o] = <<PhyTag(i)>>

(***************************************************************************)
(* Annotations added to models whose stored annotationList came from a     *)
(* client: it may hold null, identifiers and embedded annotations.         *)
(***************************************************************************)
\* the elements of such a list: null, an identifier, an annotation embedded
\* with its identifier, an annotation embedded without one
ListElements ==
  {NullDoc, [body |-> "b"]}
    \cup UNION {{Oid(x), [_id |-> x, body |-> "b"]} :
                  x \in DOMAIN objects["annotation"] \cup ClientIds}

ListedModels ==
  UNION {WithStoredIds("model", Put(EmbeddedModel, "annotationList", l)) :
           l \in {<<e>> : e \in ListElements} \cup {<<NullDoc, e>> : e \in ListElements}}

\* POST model with one of these bodies
AddListed ==
  \E sid \in Sessions, body \in ListedModels :
    LET r == addObjectToCollection(objects, accounts, nextId, sid, "model", body)
    IN /\ Write(r.objs, r.accts, r.next)
       /\ response' = r.resp
       /\ last' = [op |-> "addObject", sid |-> sid, coll |-> "model", body |-> body]
       /\ calls' = <<>>
       /\ UNCHANGED removed

\* POST annotation of an annotation of a stored model; last keeps the store
\* as it was before the request, and the identifier of the annotation
AddAnnotation ==
  \E sid \in Sessions, m \in DOMAIN objects["model"] :
   \E body \in WithStoredIds("annotation", Annotation(m, NoId)) :
    LET r == addObjectToCollection(objects, accounts, nextId, sid, "annotation", body)
    IN /\ Write(r.objs, r.accts, r.next)
       /\ response' = r.resp
       /\ last' = [op |-> "addAnnotation", sid |-> sid, coll |-> "annotation",
                   body |-> body, model |-> m, objects |-> objects,
                   id |-> IF ObjectIdIsValid(IdOf(body)) THEN IdOf(body) ELSE nextId]
       /\ calls' = <<>>
       /\ UNCHANGED removed

NextLists == LoginOwn \/ AddListed \/ AddAnnotation

SpecLists == Init /\ [][NextLists]_vars

\* the last request has written the annotationList of its model
ListWritten ==
  /\ last.op = "addAnnotation"
  /\ objects["model"][last.model] # last.objects["model"][last.model]

\* C27: whenever an annotation submission writes an owner's annotationList
\* back to the store, every element written is a bare identifier, never an
\* embedded Annotation body and never null, and the list contains the new
\* annotation's identifier exactly once.
C27_BareAnnotationList ==
  ListWritten =>
    LET list == objects["model"][last.model]["annotationList"]
    IN /\ \A k \in 1..Len(list) :
            /\ list[k] # NullDoc
            /\ DOMAIN list[k] = {"oid"}
            /\ ObjectIdIsValid(list[k]["oid"])
       /\ Cardinality({k \in 1..Len(list) : AnnotationId(list[k]) = last.id}) = 1

\* the same, of the lists whose embedded annotations carry their identifier
BareWhenIdentified ==
  (/\ ListWritten
   /\ \A k \in 1..Len(last.objects["model"][last.model]["annotationList"]) :
        LET e == last.objects["model"][last.model]["annotationList"][k]
        IN e = NullDoc \/ Has(e, "_id") \/ Has(e, "oid")) =>
    LET list == objects["model"][last.model]["annotationList"]
    IN /\ \A k \in 1..Len(list) :
            /\ list[k] # NullDoc
            /\ DOMAIN list[k] = {"oid"}
            /\ ObjectIdIsValid(list[k]["oid"])
       /\ Cardinality({k \in 1..Len(list) : AnnotationId(list[k]) = last.id}) = 1

\* a list that held null and an annotation embedded with its identifier has
\* been written back as two identifiers
ListConverted ==
  /\ ListWritten
  /\ Len(last.objects["model"][last.model]["annotationList"]) = 2
  /\ last.objects["model"][last.model]["annotationList"][1] = NullDoc
  /\ Has(last.objects["model"][last.model]["annotationList"][2], "body")
  /\ Len(objects["model"][last.model]["annotationList"]) = 2
  /\ \A k \in 1..2 : DOMAIN objects["model"][last.model]["annotationList"][k] = {"oid"}

(***************************************************************************)
(* registerUser and verifyUser of express.ts.  The accounts repository     *)
(* holds the users collection (documents in insertion order) and the       *)
(* passwords collection (one document per username, upserted).  Every      *)
(* await of registerUser is a point where another request may run.         *)
(***************************************************************************)
MaxRegistrations == 2

\* EUserRank.admin and EUserRank.user of ../interfaces: two distinct ranks
EUserRankAdmin == "admin"
EUserRankUser == "user"

RegUsernames == {"u1", "u2"}
RegPasswords == {"x", "y"}
Salts == {"s1", "s2"}

\* request.body: a complete user, one without mail, one that names its own role
RegisterBodies ==
  LET full(u, p) == [fullname |-> "f", prename |-> "p", surname |-> "s", mail |-> "m",
                     username |-> u, password |-> p]
  IN  {full(u, p) : u \in RegUsernames, p \in RegPasswords}
      \cup {Del(full(u, "x"), "mail") : u \in RegUsernames}
      \cup {Put(full("u2", "x"), "role", EUserRankAdmin)}

InitRegister ==
  /\ objects = [c \in Collections |-> <<>>]
  /\ accounts = [users |-> <<>>, passwords |-> <<>>]
  /\ nextId = 1
  /\ response = Response("none", "", EmptyDoc)
  /\ last = Request("none", "")
  /\ calls = <<>>
  /\ removed = {}
  /\ requests = 0

\* coll.findOne({ username }) !== null
UserExists(users, username) == \E k \in 1..Len(users) : users[k]["username"] = username

\* const isUser = (obj: any): obj is IUserData
isUser(person) ==
  \A f \in {"fullname", "prename", "surname", "mail", "username", "password"} : Has(person, f)

\* sha512(password, salt): the hash depends on both
sha512(password, salt) == [salt |-> salt, passwordHash |-> <<password, salt>>]

\* const adjustedUser = { ...user, role, data: {} }
AdjustedUser(user, role) == Put(Put(user, "role", role), "data", EmptyDoc)

RegisterStep(i, pc) ==
  /\ i \in 1..Len(calls)
  /\ calls[i].pc = pc
  /\ last' = [Request("registerUser", "") EXCEPT !.username = calls[i].user["username"],
                                                 !.id = i]

\* the request arrives
RegisterBegin ==
  \E user \in RegisterBodies :
    /\ requests < MaxRegistrations
    /\ requests' = requests + 1
    /\ calls' = Append(calls, [user |-> user, pc |-> "findFirst", role |-> "",
                               registered |-> UserExists(accounts.users, user["username"]),
                               sent |-> "none"])
    /\ last' = [Request("registerUser", "") EXCEPT !.username = user["username"],
                                                   !.id = Len(calls) + 1]
    /\ UNCHANGED <<objects, accounts, nextId, response, removed>>

\* const isFirstUser = (await coll.findOne({})) === null, and the role
RegisterFindFirst ==
  \E i \in 1..Len(calls) :
    /\ RegisterStep(i, "findFirst")
    /\ calls' = [calls EXCEPT ![i].pc = "findUser",
                              ![i].role = IF accounts.users = <<>> THEN EUserRankAdmin
                                          ELSE EUserRankUser]
    /\ UNCHANGED <<objects, accounts, nextId, response, removed, requests>>

\* const userExists = (await coll.findOne({ username })) !== null, and the
\* branches that answer without a write
RegisterFindUser ==
  \E i \in 1..Len(calls) :
    /\ RegisterStep(i, "findUser")
    /\ IF UserExists(accounts.users, calls[i].user["username"])
       THEN /\ response' = Response("error", "User already exists", EmptyDoc)
            /\ calls' = [calls EXCEPT ![i].pc = "done", ![i].sent = "User already exists"]
       ELSE IF isUser(AdjustedUser(calls[i].user, calls[i].role))
       THEN /\ calls' = [calls EXCEPT ![i].pc = "updateOne"]
            /\ UNCHANGED response
       ELSE /\ response' = Response("error", "Incomplete user data", EmptyDoc)
            /\ calls' = [calls EXCEPT ![i].pc = "done", ![i].sent = "Incomplete user data"]
    /\ UNCHANGED <<objects, accounts, nextId, removed, requests>>

\* await passwords.updateOne({ username }, { $set: { username, password:
\* saltHashPassword(user.password) } }, { upsert: true })
RegisterUpdatePassword ==
  \E i \in 1..Len(calls), salt \in Salts :
    /\ RegisterStep(i, "updateOne")
    /\ accounts' = [accounts EXCEPT !.passwords =
                      Put(@, calls[i].user["username"],
                          [username |-> calls[i].user["username"],
                           password |-> sha512(calls[i].user["password"], salt)])]
    /\ calls' = [calls EXCEPT ![i].pc = "insertOne"]
    /\ UNCHANGED <<objects, nextId, response, removed, requests>>

\* coll.insertOne(adjustedUser).then(() => response.send({ status: 'ok', ... }))
RegisterInsertOne ==
  \E i \in 1..Len(calls) :
    /\ RegisterStep(i, "insertOne")
    /\ accounts' = [accounts EXCEPT !.users =
                      Append(@, Put(Del(AdjustedUser(calls[i].user, calls[i].role), "password"),
                                    "_id", nextId))]
    /\ nextId' = nextId + 1
    /\ response' = Response("ok", "Registered", EmptyDoc)
    /\ calls' = [calls EXCEPT ![i].pc = "done", ![i].sent = "Registered"]
    /\ UNCHANGED <<objects, removed, requests>>

\* verifyUser(username, password)
verifyUser(accs, username, password) ==
  /\ UserExists(accs.users, username)
  /\ Has(accs.passwords, username)
  /\ sha512(password, accs.passwords[username]["password"].salt).passwordHash
       = accs.passwords[username]["password"].passwordHash

\* a login attempt through the local strategy
VerifyUser ==
  \E username \in RegUsernames, password \in RegPasswords :
    /\ response' = Response(IF verifyUser(accounts, username, password) THEN "ok" ELSE "error",
                            "", EmptyDoc)
    /\ last' = [Request("verifyUser", "") EXCEPT !.username = username,
                                                 !.password = password]
    /\ UNCHANGED <<objects, accounts, nextId, calls, removed, requests>>

NextRegister ==
  \/ RegisterBegin
  \/ RegisterFindFirst
  \/ RegisterFindUser
  \/ RegisterUpdatePassword
  \/ RegisterInsertOne
  \/ VerifyUser

SpecRegister == InitRegister /\ [][NextRegister]_vars

\* the accounts of the users collection with role admin
Admins(users) == {k \in 1..Len(users) : users[k]["role"] = EUserRankAdmin}

\* C28: at most one account of the users collection has role admin, and every
\* account inserted when the collection already held one has role user
C28_SingleAdmin ==
  /\ Cardinality(Admins(accounts.users)) <= 1
  /\ \A k \in 2..Len(accounts.users) : accounts.users[k]["role"] = EUserRankUser

\* what does hold: an account is admin only if its request found the
\* collection empty, whatever role the body names
AdminOnlyWhenFoundEmpty ==
  \A k \in Admins(accounts.users) :
    \E i \in 1..Len(calls) :
      /\ calls[i].sent = "Registered"
      /\ calls[i].role = EUserRankAdmin
      /\ calls[i].user["username"] = accounts.users[k]["username"]

\* two requests have found the collection empty and both were inserted
TwoAdmins == Cardinality(Admins(accounts.users)) = 2

\* the accounts of a username
AccountsOf(users, username) ==
  {users[k] : k \in {j \in 1..Len(users) : users[j]["username"] = username}}

\* C29: no two accounts of the users collection have the same username, and
\* no step changes the account or the password hash of a registered username
C29_UsernameUniqueness ==
  [][/\ \A j, k \in 1..Len(accounts'.users) :
          accounts'.users[j]["username"] = accounts'.users[k]["username"] => j = k
     /\ \A u \in RegUsernames :
          UserExists(accounts.users, u) =>
            /\ AccountsOf(accounts'.users, u) = AccountsOf(accounts.users, u)
            /\ Has(accounts.passwords, u) => accounts'.passwords[u] = accounts.passwords[u]]_vars

\* what does hold: a request that arrives when the username is registered
\* answers "User already exists" or "Incomplete user data" and writes nothing
LateRegistrationRejected ==
  \A i \in 1..Len(calls) :
    calls[i].registered => calls[i].pc \in {"findFirst", "findUser", "done"}
                           /\ calls[i].sent # "Registered"

\* two accounts share a username, and the password one of them registered
\* with no longer verifies
SharedUsername ==
  \E j, k \in 1..Len(accounts.users) :
    /\ j # k
    /\ accounts.users[j]["username"] = accounts.users[k]["username"]
    /\ \E i \in 1..Len(calls) :
         /\ calls[i].sent = "Registered"
         /\ calls[i].user["username"] = accounts.users[j]["username"]
         /\ ~verifyUser(accounts, calls[i].user["username"], calls[i].user["password"])

(***************************************************************************)
(* The scope of a delete (SpecOwn).                                        *)
(***************************************************************************)
\* the Account of session sid lists identifier under the key coll of its data
ListedUnder(accts, sid, coll, identifier) ==
  LET i == SessionIndex(accts, sid)
  IN /\ i # 0
     /\ coll \in DOMAIN accts[i].data
     /\ InSeq(identifier, accts[i].data[coll])

\* C30: removeObjectFromCollection takes the entity with identifier X out of
\* collection C only if the Account of the requesting session lists X under
\* the key C of its data; X listed under another key authorises nothing in C.
C30_CollectionScopedDelete ==
  [][(/\ last'.op = "removeObject"
      /\ last'.id \in DOMAIN objects[last'.coll]
      /\ last'.id \notin DOMAIN objects'[last'.coll])
       => ListedUnder(accounts, last'.sid, last'.coll, last'.id)]_vars

\* an entity was taken out of a collection under whose key the Account of the
\* session did not list it, the Account listing it under another key
CrossCollectionDelete ==
  /\ last.op = "removeObject"
  /\ response.status \in {"ok", "none"}
  /\ last.id \notin DOMAIN objects[last.coll]
  /\ <<last.sid, last.coll, last.id>> \notin removed
  /\ \E coll \in Collections \ {last.coll} :
       ListedUnder(accounts, last.sid, coll, last.id)

(***************************************************************************)
(* The gate of addObjectToCollection (SpecGate): two sessions log in, one  *)
(* stores a model and a compilation, the other adds an annotation.         *)
(***************************************************************************)
MaxGateWrites == 5

LoginGate ==
  \E us \in {<<"u1", "s1">>, <<"u2", "s2">>} :
    /\ requests < MaxGateWrites
    /\ requests' = requests + 1
    /\ accounts' = addToAccounts(accounts, us[1], us[2])
    /\ response' = Response("ok", "", EmptyDoc)
    /\ last' = [op |-> "login", sid |-> us[2], coll |-> "", body |-> EmptyDoc]
    /\ calls' = <<>>
    /\ UNCHANGED <<objects, nextId, removed>>

AddGate ==
  \E sid \in Sessions, cb \in LinkedBodies :
    LET r == addObjectToCollection(objects, accounts, nextId, sid, cb[1], cb[2])
    IN /\ requests < MaxGateWrites
       /\ r.next <= MaxIds + 1
       /\ requests' = requests + 1
       /\ objects' = r.objs
       /\ accounts' = r.accts
       /\ nextId' = r.next
       /\ response' = r.resp
       /\ last' = [op |-> "addObject", sid |-> sid, coll |-> cb[1], body |-> cb[2]]
       /\ calls' = <<>>
       /\ UNCHANGED removed

NextGate == LoginGate \/ AddGate

SpecGate == Init /\ [][NextGate]_vars

\* the stored entities (collection, identifier) a step changes or takes away
ChangedEntities ==
  {ce \in Collections \X AllIds(objects) :
     /\ ce[2] \in DOMAIN objects[ce[1]]
     /\ \/ ce[2] \notin DOMAIN objects'[ce[1]]
        \/ objects'[ce[1]][ce[2]] # objects[ce[1]][ce[2]]}

\* C31: an addObjectToCollection request changes a field of an already
\* stored entity, in any collection, only if the Account of the requesting
\* session lists that entity; a request answered 'Permission denied' leaves
\* the store unchanged.  (The annotationList of a model or compilation the
\* session does not own is one such field.)
C31_MutationGating ==
  [][last'.op = "addObject" =>
       /\ \A ce \in ChangedEntities : ListedUnder(accounts, last'.sid, ce[1], ce[2])
       /\ response'.message = "Permission denied" =>
            objects' = objects /\ accounts' = accounts]_vars

\* what does hold: a request answered 'Permission denied' changes nothing
DeniedChangesNothing ==
  [][(last'.op = "addObject" /\ response'.message = "Permission denied") =>
       objects' = objects /\ accounts' = accounts]_vars

\* a request was answered 'Permission denied'
DeniedOnce == last.op = "addObject" /\ response.message = "Permission denied"

\* an annotation added by a session has lengthened the annotationList of a
\* compilation its Account does not list
ForeignListChanged ==
  /\ last.op = "addObject"
  /\ last.coll = "annotation"
  /\ response.status = "ok"
  /\ LET c == last.body["target"]["source"]["relatedCompilation"]
     IN /\ c \in DOMAIN objects["compilation"]
        /\ ~Listed(accounts, last.sid, c)
        /\ Has(objects["compilation"][c], "annotationList")
        /\ Len(objects["compilation"][c]["annotationList"]) > 0

(***************************************************************************)
(* Mongo.getAllObjectsFromCollection (SpecAll): documents are added to the *)
(* compilation collection, compilations with and without a password and    *)
(* documents that are no compilation, and the collection is listed.        *)
(***************************************************************************)
\* compilation => (!compilation.password || compilation.password.length === 0)
HasNoPassword(compilation) ==
  ~Has(compilation, "password") \/ compilation["password"] = ""

getAllObjectsFromCollection(objs, coll) ==
  LET items == getAllItemsOfCollection(objs, coll, 1)
      resolved == [i \in 1..Len(items) |-> resolve(objs, items[i], coll, NoDepth)]
      results == SelectSeq(resolved, LAMBDA d : d # NullDoc)
  IN IF Len(results) > 0 /\ isCompilation(results[1])
       THEN SelectSeq(results, HasNoPassword)
     ELSE results

\* the documents a client adds to the compilation collection
MixedBodies ==
  {"compilation"} \X
    ({[name |-> "c", models |-> <<>>, password |-> pw] : pw \in {"", "x"}}
       \cup {[name |-> "c", models |-> <<>>], [name |-> "n"]})

AddMixed == AddObjectOf(MixedBodies)

\* GET :collection
GetAllObjects ==
  /\ response' = Response("sent", "", getAllObjectsFromCollection(objects, "compilation"))
  /\ last' = [Request("getAllObjects", "") EXCEPT !.coll = "compilation"]
  /\ calls' = <<>>
  /\ Read

NextAll == LoginOwn \/ AddMixed \/ GetAllObjects

SpecAll == Init /\ [][NextAll]_vars

\* the compilations with a non-empty password among the documents sent
ProtectedSent ==
  {k \in 1..Len(response.body) :
     isCompilation(response.body[k]) /\ ~HasNoPassword(response.body[k])}

\* C32: getAllObjectsFromCollection on the compilation collection never
\* returns a compilation that has a non-empty password, whatever else the
\* collection holds and in whatever order.
C32_NoProtectedListed ==
  last.op = "getAllObjects" => ProtectedSent = {}

\* what does hold: when the first stored document is a compilation, no
\* compilation with a non-empty password is sent
FilteredBehindCompilation ==
  (/\ last.op = "getAllObjects"
   /\ DOMAIN objects["compilation"] # {}
   /\ isCompilation(objects["compilation"][getAllItemsOfCollection(objects, "compilation", 1)[1]]))
    => ProtectedSent = {}

\* a protected compilation stored behind an open one was held back
ProtectedHeldBack ==
  /\ last.op = "getAllObjects"
  /\ Len(response.body) = 1
  /\ \E x \in DOMAIN objects["compilation"] : ~HasNoPassword(objects["compilation"][x])

(***************************************************************************)
(* Search over compilations (SpecSecret).  A stored compilation has the    *)
(* properties _id, name and password, in this order; the handler reads no  *)
(* session, so no requester owns anything it searches.                     *)
(***************************************************************************)
TCompilation(name, password) == TObj(<<TObj(<<>>), TStr(name), TStr(password)>>)

\* _pw && _pw.length > 0, of a stored compilation
IsProtected(doc) == doc.v[3].s # <<>>

SecretNames == {<<"a">>, <<"B">>}

SecretPasswords == {<<>>, <<"x">>, <<"a", "b">>}

\* a compilation comes to be stored
StoreCompilation ==
  \E name \in SecretNames, password \in SecretPasswords :
    /\ requests < MaxDocs
    /\ requests' = requests + 1
    /\ objects' = [objects EXCEPT !["compilation"] =
                     [k \in DOMAIN objects["compilation"] \cup {nextId} |->
                        IF k = nextId THEN TCompilation(name, password)
                        ELSE objects["compilation"][k]]]
    /\ nextId' = nextId + 1
    /\ last' = [op |-> "store", coll |-> "compilation", filter |-> NoFilter]
    /\ response' = Response("none", "", EmptyDoc)
    /\ UNCHANGED <<accounts, calls, removed>>

\* POST search/compilation: the default branch of the switch
SearchCompilations ==
  \E filter \in SearchFilters :
    /\ last' = [op |-> "search", coll |-> "compilation", filter |-> filter]
    /\ response' = Response("sent", "",
                            filterResults(objects, "compilation", LoweredFilter(filter)))
    /\ UNCHANGED <<objects, accounts, nextId, calls, removed, requests>>

NextSecret == StoreCompilation \/ SearchCompilations

SpecSecret == Init /\ [][NextSecret]_vars

\* the stores that differ from objs only in the name and the password of
\* its password-protected compilations, which stay protected
SecretVariants(objs) ==
  LET protected == {x \in DOMAIN objs["compilation"] : IsProtected(objs["compilation"][x])}
      docs == {TCompilation(n, pw) : n \in SecretNames, pw \in SecretPasswords \ {<<>>}}
  IN {[objs EXCEPT !["compilation"] =
         [x \in DOMAIN objs["compilation"] |->
            IF x \in protected THEN f[x] ELSE objs["compilation"][x]]] :
        f \in [protected -> docs]}

\* C33: for any two stores that differ only in the fields, the password
\* included, of password-protected compilations, searchObjectWithFilter on
\* the compilation collection returns the same result for every filter.
C33_SearchNonInterference ==
  last.op = "search" =>
    \A objs2 \in SecretVariants(objects) :
      filterResults(objs2, "compilation", LoweredFilter(last.filter)) = response.body

\* what does hold: the result does not depend on protected compilations when
\* the filter has no term but the empty string, or is absent
EmptyTermsNonInterference ==
  (/\ last.op = "search"
   /\ \A k \in 1..Len(last.filter.terms) : last.filter.terms[k] = <<>>) =>
    \A objs2 \in SecretVariants(objects) :
      filterResults(objs2, "compilation", LoweredFilter(last.filter)) = response.body

\* a search for the password of a protected compilation has returned its
\* identifier, and only that
PasswordMatched ==
  /\ last.op = "search"
  /\ last.filter = FilterList(<<<<"a", "b">>>>)
  /\ Len(response.body) = 1
  /\ objects["compilation"][response.body[1]] = TCompilation(<<"B">>, <<"a", "b">>)

(***************************************************************************)
(* Sessions (SpecSession): logins, logouts and validateLoginSession.  The  *)
(* cookie connect.sid is a sequence of characters of which a session id is *)
(* taken to be one; "s:" is the prefix express-session writes.             *)
(***************************************************************************)
\* request.cookies['connect.sid']: none, a prefix without a session id, or a
\* prefix and a session id
Cookies == {<<>>, <<"s", ":">>} \cup {<<"s", ":", sid>> : sid \in Sessions}

\* cookie.substr(2, 36)
Substr2(cookie) ==
  IF Len(cookie) <= 2 THEN ""
  ELSE cookie[3]

\* (request.cookies['connect.sid']) ? request.cookies['connect.sid'].substr(2, 36)
\*                                  : request.sessionID
CookieSessionId(cookie, sessionID) == IF cookie # <<>> THEN Substr2(cookie) ELSE sessionID

\* validateLoginSession: the response, status "next" when next() is called
validateLoginSession(accts, sessionID) ==
  IF SessionIndex(accts, sessionID) = 0
    THEN Response("error", "Invalid session", EmptyDoc)
  ELSE Response("next", "", EmptyDoc)

ValidateLoginSession ==
  \E cookie \in Cookies, sid \in Sessions :
    /\ response' = validateLoginSession(accounts, CookieSessionId(cookie, sid))
    /\ last' = [Request("validateLoginSession", CookieSessionId(cookie, sid))
                  EXCEPT !.id = SessionIndex(accounts, CookieSessionId(cookie, sid))]
    /\ calls' = <<>>
    /\ Read

\* Mongo.updateSessionId: updateOne({ username }, { $set: { username, sessionID, ... } })
updateSessionId(accts, username, sessionID) ==
  LET i == UsernameIndex(accts, username)
  IN IF i = 0 THEN accts ELSE [accts EXCEPT ![i].sessionID = sessionID]

\* the login route: updateSessionId, then addToAccounts, of any user in any session
LoginSession ==
  \E username \in Usernames, sid \in Sessions :
    /\ Write(objects,
             addToAccounts(updateSessionId(accounts, username, sid), username, sid),
             nextId)
    /\ response' = Response("ok", "", EmptyDoc)
    /\ last' = [Request("login", sid) EXCEPT !.username = username]
    /\ calls' = <<>>
    /\ UNCHANGED removed

NextSession == LoginSession \/ Logout \/ ValidateLoginSession

SpecSession == Init /\ [][NextSession]_vars

\* the Account is logged out: invalidateSession has cleared its session id
\* and no login has bound one since
LoggedOut(account) == account.sessionID = ""

\* C34: validateLoginSession lets no request through that resolves to a
\* logged-out Account, whatever session id the cookie yields, the empty
\* string included; such a request is answered 'Invalid session'.
C34_LogoutEffective ==
  last.op = "validateLoginSession" =>
    /\ response.status = "next" => ~LoggedOut(accounts[last.id])
    /\ (\A i \in 1..Len(accounts) : LoggedOut(accounts[i])) =>
         response.message = "Invalid session"

\* what does hold: a request whose cookie yields a session id that is not
\* empty is let through only to an Account that is logged in with it
NonEmptySessionValidated ==
  (last.op = "validateLoginSession" /\ last.sid # "") =>
    /\ response.status = "next" =>
         ~LoggedOut(accounts[last.id]) /\ accounts[last.id].sessionID = last.sid
    /\ response.status # "next" => response.message = "Invalid session"

\* a request with the session id of an Account that has logged out is rejected
RejectedAfterLogout ==
  /\ last.op = "validateLoginSession"
  /\ last.sid # ""
  /\ response.message = "Invalid session"
  /\ \E i \in 1..Len(accounts) : LoggedOut(accounts[i])

\* the Accounts that hold the session id sid
HoldersOf(sid) == {i \in 1..Len(accounts) : accounts[i].sessionID = sid}

\* C35: in every state reached by logins and logouts at most one Account
\* holds any given session id, so that getCurrentUserBySession identifies
\* at most one Account.
C35_SessionUnambiguous ==
  \A sid \in Sessions : Cardinality(HoldersOf(sid)) <= 1

\* what does hold: an Account holds at most one session id, the one of its
\* latest login, and usernames are not repeated
OneSessionPerAccount ==
  /\ \A i, j \in 1..Len(accounts) : accounts[i].username = accounts[j].username => i = j
  /\ last.op = "login" => accounts[UsernameIndex(accounts, last.username)].sessionID = last.sid

\* two Accounts hold the same session id and a request of that session is
\* let through
SharedSession ==
  /\ last.op = "validateLoginSession"
  /\ response.status = "next"
  /\ Cardinality(HoldersOf(last.sid)) = 2
  /\ last.sid # ""

(***************************************************************************)
(* Interleaved addObjectToCollection requests of one session (SpecBook).   *)
(* The bodies are of no kind the handler treats specially and carry no     *)
(* identifier, so every request creates an entity of its own.  A request   *)
(* awaits the upsert of the entity, then, in insertCurrentUserData, the    *)
(* findOne of the Account and the updateOne of its data, then responds.    *)
(***************************************************************************)
MaxBookRequests == 2

BookStep(i, pc) ==
  /\ i \in 1..Len(calls)
  /\ calls[i].pc = pc
  /\ last' = [Request("addObject", "s1") EXCEPT !.id = Clock + 1]

\* the login of the session
BookLogin ==
  /\ accounts = <<>>
  /\ accounts' = addToAccounts(accounts, "u1", "s1")
  /\ response' = Response("ok", "", EmptyDoc)
  /\ last' = [Request("login", "s1") EXCEPT !.id = Clock + 1]
  /\ UNCHANGED <<objects, nextId, calls, removed, requests>>

\* the request arrives, finds its user, and its upsert is applied
BookUpsert ==
  \E coll \in {"tag", "person"} :
    /\ SessionIndex(accounts, "s1") # 0
    /\ requests < MaxBookRequests
    /\ requests' = requests + 1
    /\ objects' = Upsert(objects, coll, nextId, [_id |-> nextId, value |-> "t"])
    /\ nextId' = nextId + 1
    /\ calls' = Append(calls, [coll |-> coll, id |-> nextId, pc |-> "findOne",
                               data |-> EmptyDoc, readAt |-> 0, wroteAt |-> 0,
                               sent |-> "none"])
    /\ last' = [Request("addObject", "s1") EXCEPT !.id = Clock + 1]
    /\ UNCHANGED <<accounts, response, removed>>

\* insertCurrentUserData: const userData = await getCurrentUserBySession(sessionID)
BookFindOne ==
  \E i \in 1..Len(calls) :
    /\ BookStep(i, "findOne")
    /\ calls' = [calls EXCEPT ![i].pc = "updateOne",
                              ![i].data = accounts[SessionIndex(accounts, "s1")].data,
                              ![i].readAt = Clock + 1]
    /\ UNCHANGED <<objects, accounts, nextId, response, removed, requests>>

\* insertCurrentUserData: the identifier is pushed to the list read before and
\* updateOne({ sessionID }, { $set: { data: userData.data } }) writes the map
BookUpdateOne ==
  \E i \in 1..Len(calls) :
    LET c == calls[i]
        list == IF Has(c.data, c.coll) THEN c.data[c.coll] ELSE <<>>
    IN /\ BookStep(i, "updateOne")
       /\ accounts' = IF DoesExist(list, c.id) THEN accounts
                      ELSE [accounts EXCEPT ![SessionIndex(accounts, "s1")].data =
                              Put(c.data, c.coll, Append(list, c.id))]
       /\ calls' = [calls EXCEPT ![i].pc = "send", ![i].wroteAt = Clock + 1]
       /\ UNCHANGED <<objects, nextId, response, removed, requests>>

\* response.send({ status: 'ok', ...await Mongo.resolve(resultId, RequestCollection) })
BookSend ==
  \E i \in 1..Len(calls) :
    /\ BookStep(i, "send")
    /\ response' = Response("ok", "", resolve(objects, calls[i].id, calls[i].coll, NoDepth))
    /\ calls' = [calls EXCEPT ![i].pc = "done", ![i].sent = "ok"]
    /\ UNCHANGED <<objects, accounts, nextId, removed, requests>>

NextBook == BookLogin \/ BookUpsert \/ BookFindOne \/ BookUpdateOne \/ BookSend

SpecBook == Init /\ [][NextBook]_vars

\* the requests that have responded with status ok
Answered == {i \in 1..Len(calls) : calls[i].pc = "done" /\ calls[i].sent = "ok"}

\* C36: once two requests of the session that created different entities
\* have both responded with status ok, the Account data of the session
\* contains both identifiers.
C36_BookkeepingUnderConcurrency ==
  \A i, j \in Answered :
    calls[i].id # calls[j].id =>
      /\ ListedUnder(accounts, "s1", calls[i].coll, calls[i].id)
      /\ ListedUnder(accounts, "s1", calls[j].coll, calls[j].id)

\* what does hold: the same, of two requests of which one has written the
\* Account before the other has read it
BookkeepingInTurn ==
  \A i, j \in Answered :
    calls[i].wroteAt < calls[j].readAt =>
      /\ ListedUnder(accounts, "s1", calls[i].coll, calls[i].id)
      /\ ListedUnder(accounts, "s1", calls[j].coll, calls[j].id)

\* two requests in turn have both been recorded
BothRecorded ==
  /\ Cardinality(Answered) = 2
  /\ calls[1].wroteAt < calls[2].readAt
  /\ \A i \in Answered : ListedUnder(accounts, "s1", calls[i].coll, calls[i].id)

\* two overlapping requests were answered ok and one identifier is recorded
\* nowhere in the Account
RecordLost ==
  /\ Cardinality(Answered) = 2
  /\ \E i \in Answered : ~Listed(accounts, "s1", calls[i].id)

(***************************************************************************)
(* The two ownership tests (SpecTests): the data map of an Account grows   *)
(* through insertCurrentUserData, under the key of whatever collection the *)
(* request names, and both tests are applied to every valid identifier.    *)
(***************************************************************************)
\* the structurally valid identifiers
ValidIds == 1..(MaxIds + 1)

\* the collections a request names
TestCollections == {"model", "compilation", HexName}

\* Mongo.insertCurrentUserData(request, identifier, collection)
InsertCurrentUserData ==
  \E sid \in Sessions, identifier \in ValidIds, coll \in TestCollections :
    /\ Write(objects, insertCurrentUserData(accounts, sid, identifier, coll).accts, nextId)
    /\ response' = Response("none", "", EmptyDoc)
    /\ last' = [Request("insertCurrentUserData", sid) EXCEPT !.coll = coll,
                                                             !.id = identifier]
    /\ calls' = <<>>
    /\ UNCHANGED removed

\* isUserOwnerOfObject and the test of removeObjectFromCollection, of the
\* Account of a session and an identifier
OwnerTests ==
  \E sid \in Sessions, identifier \in ValidIds :
    /\ SessionIndex(accounts, sid) # 0
    /\ response' = Response("none", "",
                            [isOwner |-> isUserOwnerOfObject(accounts, sid, identifier),
                             belongs |-> BelongsToUser(
                                           accounts[SessionIndex(accounts, sid)].data,
                                           identifier)])
    /\ last' = [Request("ownerTests", sid) EXCEPT !.id = identifier]
    /\ calls' = <<>>
    /\ Read

NextTests == LoginOf({<<"u1", "s1">>, <<"u2", "s2">>}) \/ InsertCurrentUserData \/ OwnerTests

SpecTests == Init /\ [][NextTests]_vars

\* C37: for every data map built by insertCurrentUserData and every valid
\* identifier, isUserOwnerOfObject answers true if and only if the
\* identifier equals a reference of some list of the data map, the test of
\* removeObjectFromCollection.
C37_OwnershipTestsAgree ==
  last.op = "ownerTests" => response.body.isOwner = response.body.belongs

\* what does hold: the tests agree on the data maps whose keys are names that
\* are not the string of an identifier
TestsAgreeOnNames ==
  (/\ last.op = "ownerTests"
   /\ ~Has(accounts[SessionIndex(accounts, last.sid)].data, HexName)) =>
    response.body.isOwner = response.body.belongs

\* both tests have answered true, and both false, of a data map with two lists
TestsAgreed ==
  /\ last.op = "ownerTests"
  /\ response.body.isOwner /\ response.body.belongs
  /\ Cardinality(DOMAIN accounts[SessionIndex(accounts, last.sid)].data) = 2

\* isUserOwnerOfObject has answered true of an identifier no list holds
OwnerByKey ==
  /\ last.op = "ownerTests"
  /\ response.body.isOwner
  /\ ~response.body.belongs

(***************************************************************************)
(* References of a stored digital object (SpecRefs): the forms of          *)
(* SubmitBodies, and forms whose digobj_rightsowner names an identifier of *)
(* the client's choice under any value of digobj_rightsownerSelector.      *)
(***************************************************************************)
\* a selector that is neither personSelector nor instSelector
otherSelector == 3

RefBodies ==
  SubmitBodies(objects)
    \cup {Fill(EmptyDigObj(NoId, sel), "digobj_rightsowner", Ref(x)) :
            x \in DOMAIN objects["person"] \cup ClientIds,
            sel \in {personSelector, instSelector, otherSelector}}

SubmitRefs == \E body \in RefBodies : SubmitWith("s1", body)

NextRefs == SubmitRefs

SpecRefs == Init /\ [][NextRefs]_vars

\* every entry of list identifies an entity stored in one of colls
RefsExist(list, colls) ==
  \A k \in 1..Len(list) : \E coll \in colls : IdOf(list[k]) \in DOMAIN objects[coll]

\* the lists of the stored digital object d refer to stored entities
Integrity(d) ==
  /\ RefsExist(d["digobj_rightsowner"], {"person", "institution"})
  /\ RefsExist(d["contact_person_existing"], {"person"})
  /\ RefsExist(d["digobj_person_existing"], {"person"})
  /\ RefsExist(d["digobj_tags"], {"tag"})
  /\ RefsExist(d["phyObjs"], {"physicalobject"})

\* C38: whenever submit responds with status ok, every reference in the
\* stored digital object's digobj_rightsowner, contact_person_existing,
\* digobj_person_existing, digobj_tags and phyObjs lists identifies an
\* entity that exists in the collection the list refers to.
C38_ReferentialIntegrity ==
  (last.op = "submit" /\ response.status = "ok") =>
    Integrity(objects["digitalobject"][last.id])

\* what does hold: the same when digobj_rightsownerSelector selects a person
\* or an institution
IntegrityWhenSelected ==
  (/\ last.op = "submit"
   /\ response.status = "ok"
   /\ objects["digitalobject"][last.id]["digobj_rightsownerSelector"]
        \in {personSelector, instSelector}) =>
    Integrity(objects["digitalobject"][last.id])

\* a rights owner of the client's choice was stored by the submit and is referred to
OwnerCreated ==
  /\ last.op = "submit"
  /\ response.status = "ok"
  /\ \E x \in ClientIds :
       /\ <<"person", x>> \in last.created
       /\ InSeq(Ref(x), objects["digitalobject"][last.id]["digobj_rightsowner"])

(***************************************************************************)
(* The responses a handler sends (SpecSends).  A store operation answers   *)
(* with result.ok === 1 or not, or rejects; last.sends lists the calls of  *)
(* response.send of the request, in order.                                 *)
(***************************************************************************)
\* response.send({ status: 'error' })
BareError == Response("error", "", EmptyDoc)

\* submitService: service is '' when the request names none; the three flags
\* tell whether the insertOne of the digital object, the insertOne of the
\* model and insertCurrentUserData succeed
submitServiceSends(r, service, digobjOk, modelOk, userOk) ==
  (IF service = "" THEN <<Response("error", "Incorrect request", EmptyDoc)>> ELSE <<>>)
    \o (IF service = "europeana"
          THEN IF ~digobjOk
                 THEN <<Response("error", "Couldn't add as digitalobject", EmptyDoc)>>
               ELSE IF ~modelOk
                 THEN <<Response("error", "Failed finalizing digitalobject", EmptyDoc)>>
               ELSE IF ~userOk
                 THEN <<Response("error", "Failed adding finalized object to user", EmptyDoc)>>
               ELSE <<r.resp>>
        ELSE <<Response("error", "Service not configured", EmptyDoc)>>)

\* addObjectToCollection, r being the handler's result when the store performs
\* every operation: listUpdateOk and upsertOk tell whether result.ok === 1
\* holds for the updateOne of the annotationList and for the final updateOne
ListUpdated(objs, r0) ==
  /\ ~isCompilation(r0) /\ ~isModel(r0) /\ isAnnotation(r0)
  /\ AnnotationBranch(objs, r0).objs # objs

addObjectSends(objs, r, r0, listUpdateOk, upsertOk) ==
  LET listUpdated == ListUpdated(objs, r0)
  IN IF r.resp.status = "none" THEN <<>>
     ELSE IF r.resp.status = "error" THEN <<r.resp>>
     \* updateAnnotationList sends and returns false, then its caller sends
     ELSE IF listUpdated /\ ~listUpdateOk THEN <<BareError, BareError>>
     ELSE IF ~upsertOk THEN <<BareError>>
     ELSE <<r.resp>>

\* what a request leaves, r being the handler's result and sends its responses
\* when a store operation failed, failed is the store the request leaves
SendingEffect(op, sid, coll, service, stored, r, sends, failed) ==
  /\ IF sends = <<r.resp>> \/ (op = "addObject" /\ sends = <<>>)
       THEN Write(r.objs, r.accts, r.next)
     ELSE Write(failed, accounts, r.next)
  /\ response' = IF sends = <<>> THEN Response("none", "", EmptyDoc) ELSE sends[Len(sends)]
  /\ last' = [op |-> op, sid |-> sid, coll |-> coll, sends |-> sends,
              stored |-> stored, service |-> service]
  /\ calls' = <<>>
  /\ UNCHANGED removed

AddSendingOf(sid, cb, listUpdateOk, upsertOk, r) ==
  SendingEffect("addObject", sid, cb[1], "", listUpdateOk /\ upsertOk, r,
                addObjectSends(objects, r,
                               Put(cb[2], "_id", IF ObjectIdIsValid(IdOf(cb[2]))
                                                   THEN IdOf(cb[2]) ELSE nextId),
                               listUpdateOk, upsertOk),
                \* the annotationList was written and the upsert of the entity failed
                IF /\ listUpdateOk
                   /\ r.resp.status = "ok"
                   /\ ListUpdated(objects,
                                  Put(cb[2], "_id", IF ObjectIdIsValid(IdOf(cb[2]))
                                                      THEN IdOf(cb[2]) ELSE nextId))
                  THEN AnnotationBranch(objects,
                                        Put(cb[2], "_id", IF ObjectIdIsValid(IdOf(cb[2]))
                                                            THEN IdOf(cb[2]) ELSE nextId)).objs
                ELSE objects)

AddSending ==
  \E sid \in Sessions, cb \in LinkedBodies, listUpdateOk \in BOOLEAN, upsertOk \in BOOLEAN :
    AddSendingOf(sid, cb, listUpdateOk, upsertOk,
                 addObjectToCollection(objects, accounts, nextId, sid, cb[1], cb[2]))

SubmitServiceSendingOf(sid, service, digobjOk, modelOk, userOk, r) ==
  SendingEffect("submitService", sid, "", service, digobjOk /\ modelOk /\ userOk, r,
                submitServiceSends(r, service, digobjOk, modelOk, userOk),
                \* the digital object was inserted and the model was not, or
                \* both were and the Account was not written
                IF service # "europeana" \/ ~digobjOk THEN objects
                ELSE IF ~modelOk
                  THEN [objects EXCEPT !["digitalobject"] = r.objs["digitalobject"]]
                ELSE r.objs)

SubmitServiceSending ==
  \E sid \in Sessions, service \in {"europeana", "unknown", ""},
     digobjOk \in BOOLEAN, modelOk \in BOOLEAN, userOk \in BOOLEAN :
    /\ (~digobjOk => modelOk /\ userOk) /\ (~modelOk => userOk)
    /\ SubmitServiceSendingOf(sid, service, digobjOk, modelOk, userOk,
                              submitService(objects, accounts, nextId, sid, service))

NextSends == LoginOwn \/ AddSending \/ SubmitServiceSending

SpecSends == Init /\ [][NextSends]_vars

\* C39: on every path of submitService and addObjectToCollection, a missing
\* service, a failed annotationList update and a failed upsert included, the
\* handler sends at most one response.
C39_SingleResponse ==
  last.op \in {"addObject", "submitService"} => Len(last.sends) <= 1

\* what does hold: at most one response when the request names a service and
\* the update of the annotationList succeeds
SingleResponseOtherwise ==
  (/\ last.op \in {"addObject", "submitService"}
   /\ last.op = "submitService" => last.service # ""
   /\ last.op = "addObject" => last.stored) =>
    Len(last.sends) <= 1

\* a failed upsert was answered once
FailedUpsertAnswered ==
  /\ last.op = "addObject"
  /\ ~last.stored
  /\ last.sends = <<BareError>>

\* the annotationList update failed and two responses were sent
AnsweredTwice ==
  /\ last.op = "addObject"
  /\ last.coll = "annotation"
  /\ last.sends = <<BareError, BareError>>

(***************************************************************************)
(* Mailer.sendMail (SpecMail).  The accounts repository holds the ldap     *)
(* collection, with the one user of the session, and a collection per      *)
(* target of Configuration.Mailer.Target, here "contact" and "bugreport".  *)
(* Every await of a request is a point where another request may run.      *)
(***************************************************************************)
MaxMails == 4

\* if (MailCount < 3) break
MailLimit == 3

MailTargets == {"contact", "bugreport"}

InitMail ==
  /\ objects = [c \in Collections |-> <<>>]
  /\ accounts = [ldap |-> <<[_id |-> 1, username |-> "u1", sessionID |-> "s1"]>>,
                 contact |-> <<>>, bugreport |-> <<>>]
  /\ nextId = 1
  /\ response = Response("none", "", EmptyDoc)
  /\ last = Request("none", "")
  /\ calls = <<>>
  /\ removed = {}
  /\ requests = 0

\* Mailer.countUserMails(request, destination)
countUserMails(accs, sessionID, destination) ==
  LET user == accs.ldap[CHOOSE i \in 1..Len(accs.ldap) : accs.ldap[i].sessionID = sessionID]
  IN Cardinality({k \in 1..Len(accs[destination]) :
                    toString(accs[destination][k].user._id) = toString(user._id)})

MailStep(i, pc) ==
  /\ i \in 1..Len(calls)
  /\ calls[i].pc = pc
  /\ last' = [Request("sendMail", "s1") EXCEPT !.coll = calls[i].target, !.id = i]

\* the request arrives; a target that is not configured is answered at once
MailBegin ==
  \E target \in MailTargets \cup {"other"} :
    /\ requests < MaxMails
    /\ requests' = requests + 1
    /\ calls' = Append(calls, [target |-> target, count |-> 0, handed |-> FALSE,
                               pc |-> IF target \in MailTargets THEN "count" ELSE "done",
                               sent |-> IF target \in MailTargets THEN "none" ELSE "error"])
    /\ response' = IF target \in MailTargets THEN response
                   ELSE Response("error", "", EmptyDoc)
    /\ last' = [Request("sendMail", "s1") EXCEPT !.coll = target, !.id = Len(calls) + 1]
    /\ UNCHANGED <<objects, accounts, nextId, removed>>

\* const MailCount = await Mailer.countUserMails(...), the switch on the
\* target, and transporter.sendMail(mailOptions)
MailCountAndHand ==
  \E i \in 1..Len(calls) :
    LET MailCount == countUserMails(accounts, "s1", calls[i].target)
    IN /\ MailStep(i, "count")
       /\ IF calls[i].target # "bugreport" /\ ~(MailCount < MailLimit)
            THEN /\ calls' = [calls EXCEPT ![i].pc = "done", ![i].count = MailCount,
                                           ![i].sent = "Limit for this category reached"]
                 /\ response' = Response("error", "Limit for this category reached", EmptyDoc)
          ELSE /\ calls' = [calls EXCEPT ![i].pc = "sending", ![i].count = MailCount,
                                         ![i].handed = TRUE]
               /\ UNCHANGED response
       /\ UNCHANGED <<objects, accounts, nextId, removed, requests>>

\* the promise of the transport settles: the response, and addUserToDatabase
\* is called without being awaited
MailSettled ==
  \E i \in 1..Len(calls), mailSent \in BOOLEAN :
    /\ MailStep(i, "sending")
    /\ calls' = [calls EXCEPT ![i].pc = IF mailSent THEN "recordSent" ELSE "recordFailed",
                              ![i].sent = IF mailSent THEN "Mail has been sent"
                                          ELSE "Failed sending mail"]
    /\ response' = IF mailSent THEN Response("ok", "Mail has been sent", EmptyDoc)
                   ELSE Response("error", "Failed sending mail", EmptyDoc)
    /\ UNCHANGED <<objects, accounts, nextId, removed, requests>>

\* Mailer.addUserToDatabase: collection.insertOne(document)
MailRecorded ==
  \E i \in 1..Len(calls) :
    /\ calls[i].pc \in {"recordSent", "recordFailed"}
    /\ MailStep(i, calls[i].pc)
    /\ accounts' = [accounts EXCEPT ![calls[i].target] =
                      Append(@, [target |-> calls[i].target, user |-> accounts.ldap[1],
                                 answered |-> FALSE,
                                 mailSent |-> calls[i].pc = "recordSent"])]
    /\ calls' = [calls EXCEPT ![i].pc = "done"]
    /\ UNCHANGED <<objects, nextId, response, removed, requests>>

NextMail == MailBegin \/ MailCountAndHand \/ MailSettled \/ MailRecorded

SpecMail == InitMail /\ [][NextMail]_vars

\* the requests of a target whose mail was handed to the transport
Handed(target) == {i \in 1..Len(calls) : calls[i].target = target /\ calls[i].handed}

\* C40: for every target other than 'bugreport', at most 3 mails of the user
\* are handed to the mail transport, under any interleaving of the requests.
C40_MailLimit ==
  \A target \in MailTargets \ {"bugreport"} : Cardinality(Handed(target)) <= MailLimit

\* what does hold: a request that counts 3 recorded mails of the user is
\* answered 'Limit for this category reached' and hands nothing over
LimitOnceRecorded ==
  \A i \in 1..Len(calls) :
    (/\ calls[i].pc # "count"
     /\ calls[i].target \in MailTargets \ {"bugreport"}
     /\ calls[i].count >= MailLimit) =>
      ~calls[i].handed /\ calls[i].sent = "Limit for this category reached"

\* three mails were recorded and the fourth request was refused
LimitReached ==
  /\ Len(calls) = 4
  /\ calls[4].sent = "Limit for this category reached"
  /\ Cardinality(Handed("contact")) = 3

\* four mails of one target were handed to the transport
LimitExceeded == Cardinality(Handed("contact")) = 4

====
